---------------------------- MODULE Spec2Model ----------------------------
(***************************************************************************)
(* A model of the long-form story generator (story_generator.py).          *)
(*                                                                         *)
(* Texts are sequences of one-character strings, so that every substring   *)
(* test, strip, split and regular expression of the source is computed on  *)
(* the characters it is computed on in the program.  A character the       *)
(* module cannot spell in ASCII has a name: LDQ, RDQ, LSQ, RSQ are the     *)
(* curly quotes, ae oe ue sz AE OE UE the German letters.                  *)
(*                                                                         *)
(* Indices into texts are Python's: they start at 0, a slice t[a:b] holds  *)
(* the characters a .. b-1, and a search that finds nothing returns -1.    *)
(*                                                                         *)
(* The remote generation capability is the environment: each invocation    *)
(* returns one of a few texts or raises an error whose message is          *)
(* retryable or not.  The exception classes the source reads off the       *)
(* client class (OpenAI.APIError and the like) belong to the client        *)
(* library, which is not part of the repository: the model takes them to   *)
(* resolve, and an error of the environment to be an instance of none of   *)
(* the four retryable classes, so that the text of its message decides.    *)
(*                                                                         *)
(* An operator that uses an argument more than once binds it as a value    *)
(* first: F(x_) == Value({ (body over x) : x \in {x_} }).  TLC evaluates an *)
(* argument expression anew at each use when it computes ENABLED, and that *)
(* is what the fairness condition of FairSpec makes it compute.            *)
(***************************************************************************)
EXTENDS Integers, Sequences, FiniteSets, TLC

(***************************************************************************)
(* Characters and Python's string primitives.                              *)
(***************************************************************************)
None == <<"None">>

\* the element of a set of one element
Value(S) == CHOOSE v \in S : TRUE

Lower ==
    {"a","b","c","d","e","f","g","h","i","j","k","l","m","n","o","p","q","r",
     "s","t","u","v","w","x","y","z"}

Upper ==
    {"A","B","C","D","E","F","G","H","I","J","K","L","M","N","O","P","Q","R",
     "S","T","U","V","W","X","Y","Z"}

Digit == {"0","1","2","3","4","5","6","7","8","9"}

\* [a-zäöüß] and [A-ZÄÖÜ] of the regular expressions
LowerDe == Lower \cup {"ae","oe","ue","sz"}

UpperDe == Upper \cup {"AE","OE","UE"}

\* str.isalnum() of one character
IsAlnum(c_) == Value({ (c \in LowerDe \cup UpperDe \cup Digit) : c \in {c_} })

\* \w of the regular expressions
IsWordChar(c_) == Value({ (IsAlnum(c) \/ c = "_") : c \in {c_} })

\* the characters str.strip() removes and \s matches
WS == {" ", "\n", "\t", "\r"}

\* str.lower() of one character
LowerOf(c_) ==
  Value({ (
    CASE c = "A" -> "a" [] c = "B" -> "b" [] c = "C" -> "c" [] c = "D" -> "d"
      [] c = "E" -> "e" [] c = "F" -> "f" [] c = "G" -> "g" [] c = "H" -> "h"
      [] c = "I" -> "i" [] c = "J" -> "j" [] c = "K" -> "k" [] c = "L" -> "l"
      [] c = "M" -> "m" [] c = "N" -> "n" [] c = "O" -> "o" [] c = "P" -> "p"
      [] c = "Q" -> "q" [] c = "R" -> "r" [] c = "S" -> "s" [] c = "T" -> "t"
      [] c = "U" -> "u" [] c = "V" -> "v" [] c = "W" -> "w" [] c = "X" -> "x"
      [] c = "Y" -> "y" [] c = "Z" -> "z" [] c = "AE" -> "ae" [] c = "OE" -> "oe"
      [] c = "UE" -> "ue" [] OTHER -> c
  ) : c \in {c_} })

PyLower(t_) == Value({ ([i \in 1..Len(t) |-> LowerOf(t[i])]) : t \in {t_} })

SetMax(S_) == Value({ (CHOOSE x \in S : \A y \in S : y <= x) : S \in {S_} })

SetMin(S_) == Value({ (CHOOSE x \in S : \A y \in S : x <= y) : S \in {S_} })

\* t[a:b] for 0 <= a, b
Slice(t_, a_, b_) ==
  Value({ (
    LET hi == IF b > Len(t) THEN Len(t) ELSE b
    IN  IF a >= hi THEN <<>> ELSE SubSeq(t, a + 1, hi)
  ) : t \in {t_}, a \in {a_}, b \in {b_} })

\* t[a:]
From(t_, a) == Value({ (Slice(t, a, Len(t))) : t \in {t_} })

\* t[-n:] for n > 0
LastChars(t_, n_) ==
  Value({ (
                   IF n >= Len(t) THEN t ELSE SubSeq(t, Len(t) - n + 1, Len(t))
  ) : t \in {t_}, n \in {n_} })

\* p occurs in t at the (0-based) index i
OccursAt(t_, p_, i_) ==
  Value({ (
    /\ i >= 0
    /\ i + Len(p) <= Len(t)
    /\ \A k \in 1..Len(p) : t[i + k] = p[k]
  ) : t \in {t_}, p \in {p_}, i \in {i_} })

\* t.find(p, lo)
PyFind(t_, p_, lo_) ==
  Value({ (
    LET S == {i \in lo..(Len(t) - Len(p)) : OccursAt(t, p, i)}
    IN  IF S = {} THEN -1 ELSE SetMin(S)
  ) : t \in {t_}, p \in {p_}, lo \in {lo_} })

\* t.rfind(p, lo, hi): the last occurrence of p lying within t[lo:hi]
PyRFind(t_, p_, lo_, hi_) ==
  Value({ (
    LET top == IF hi > Len(t) THEN Len(t) ELSE hi
        S   == {i \in lo..(top - Len(p)) : OccursAt(t, p, i)}
    IN  IF S = {} THEN -1 ELSE SetMax(S)
  ) : t \in {t_}, p \in {p_}, lo \in {lo_}, hi \in {hi_} })

\* t.rfind(p)
PyRFindAll(t_, p) == Value({ (PyRFind(t, p, 0, Len(t))) : t \in {t_} })

\* p in t
Contains(t_, p_) ==
  Value({ (
                  \E i \in 0..(Len(t) - Len(p)) : OccursAt(t, p, i)
  ) : t \in {t_}, p \in {p_} })

\* t.startswith(p), t.endswith(p)
StartsWith(t, p) == OccursAt(t, p, 0)

EndsWith(t_, p_) == Value({ (OccursAt(t, p, Len(t) - Len(p))) : t \in {t_}, p \in {p_} })

\* the number of leading characters of t that lie in the set cs
LeadRun(t_, cs_) ==
  Value({ (
    IF \A i \in 1..Len(t) : t[i] \in cs THEN Len(t)
    ELSE (CHOOSE i \in 1..Len(t) : t[i] \notin cs /\ \A j \in 1..(i - 1) : t[j] \in cs) - 1
  ) : t \in {t_}, cs \in {cs_} })

\* the number of trailing characters of t that lie in the set cs
TrailRun(t_, cs_) ==
  Value({ (
    IF \A i \in 1..Len(t) : t[i] \in cs THEN Len(t)
    ELSE Len(t) - (CHOOSE i \in 1..Len(t) : t[i] \notin cs /\ \A j \in (i + 1)..Len(t) : t[j] \in cs)
  ) : t \in {t_}, cs \in {cs_} })

\* t.strip(cs), t.lstrip(cs), t.rstrip(cs) for a set of characters
StripSet(t_, cs_) ==
  Value({ (
    IF LeadRun(t, cs) = Len(t) THEN <<>>
    ELSE SubSeq(t, LeadRun(t, cs) + 1, Len(t) - TrailRun(t, cs))
  ) : t \in {t_}, cs \in {cs_} })

Strip(t) == StripSet(t, WS)

RStrip(t_) == Value({ (SubSeq(t, 1, Len(t) - TrailRun(t, WS))) : t \in {t_} })

LStrip(t_) == Value({ (SubSeq(t, LeadRun(t, WS) + 1, Len(t))) : t \in {t_} })

\* sep.join(parts)
RECURSIVE Join(_, _)
Join(parts_, sep_) ==
  Value({ (
    IF parts = <<>> THEN <<>>
    ELSE IF Len(parts) = 1 THEN parts[1]
    ELSE parts[1] \o sep \o Join(Tail(parts), sep)
  ) : parts \in {parts_}, sep \in {sep_} })

\* t.split(sep) for a non-empty separator: the pieces between the
\* occurrences of sep taken from the left, never overlapping
RECURSIVE Split(_, _)
Split(t_, sep_) ==
  Value({ (
    LET i == PyFind(t, sep, 0)
    IN  IF i = -1 THEN <<t>>
        ELSE <<Slice(t, 0, i)>> \o Split(From(t, i + Len(sep)), sep)
  ) : t \in {t_}, sep \in {sep_} })

\* the (0-based) indices at which the words of t.split() start
WordStarts(t_) ==
  Value({ (
    {i \in 0..(Len(t) - 1) : t[i + 1] \notin WS /\ (i = 0 \/ t[i] \in WS)}
  ) : t \in {t_} })

\* len(t.split())
WordCount(t) == Cardinality(WordStarts(t))

\* t.split()[-1], for a text that holds a word
LastWord(t) ==
    LET r == RStrip(t)
    IN  From(r, SetMax(WordStarts(r)))

(***************************************************************************)
(* Program constants (story_generator.py, lines 25-45).                    *)
(***************************************************************************)
MAX_RETRIES == 3

MIN_STORY_WORDS == 500

MAX_STORY_WORDS_NO_CHAPTERS == 25000

MAX_TOKENS_PER_CALL == 15000

MIN_CHAPTERS_LONG_STORY == 3

TARGET_WORDS_PER_CHAPTER_DIVISOR == 2500

MIN_WORDS_FOR_VALID_ENDING == 4

MIN_CHARS_FOR_RESCUE == 100

(***************************************************************************)
(* _clean_text_ending: boundary repair, four passes in a fixed order.      *)
(***************************************************************************)
ParaSep == <<"\n", "\n">>

\* pass 1: the start of the match of
\*   [a-zäöüß][,;]?\s+[A-ZÄÖÜ][a-zäöüß]+\.?\s*$
\* in a text without trailing whitespace, or -1.  The match ends at the end
\* of the text, which fixes every piece of it from the right.
IncompleteSentenceMatch(text_) ==
  Value({ (
    LET Start(q_) ==
          Value({ (
            IF text[q] \in LowerDe THEN q - 1
            ELSE IF text[q] \in {",", ";"} /\ q >= 2 /\ text[q - 1] \in LowerDe THEN q - 2
            ELSE -1
          ) : q \in {q_} })
        Space(u_, w_) ==
          Value({ (
                       IF w >= 1 /\ u - 1 - w >= 1 THEN Start(u - 1 - w) ELSE -1
          ) : u \in {u_}, w \in {w_} })
        Word(u_) ==
          Value({ (
            IF u >= 1 /\ text[u] \in UpperDe
            THEN Space(u, TrailRun(SubSeq(text, 1, u - 1), WS))
            ELSE -1
          ) : u \in {u_} })
        Tail1(e, r_) == Value({ (IF r >= 1 THEN Word(e - r) ELSE -1) : r \in {r_} })
        End(e_) == Value({ (Tail1(e, TrailRun(SubSeq(text, 1, e), LowerDe))) : e \in {e_} })
    IN  End(IF Len(text) > 0 /\ text[Len(text)] = "." THEN Len(text) - 1 ELSE Len(text))
  ) : text \in {text_} })

potential_ends ==
    << <<".", " ">>, <<"!", " ">>, <<"?", " ">>, <<".", "\"", " ">>,
       <<"!", "\"", " ">>, <<"?", "\"", " ">>, <<"\n", "\n">> >>

\* one round of the loop over potential_ends (lines 753-759)
SentenceEndStep(text_, mstart, last_sentence_end_, p_) ==
  Value({ (
    LET Quoted(end_idx_) ==
          Value({ (
            IF EndsWith(p, <<"\"", " ">>) /\ Len(text) > end_idx /\ text[end_idx + 1] = "\""
            THEN end_idx + 1
            ELSE end_idx
          ) : end_idx \in {end_idx_} })
        Found(found_pos_) ==
          Value({ (
            IF found_pos > last_sentence_end THEN Quoted(found_pos + Len(p))
            ELSE last_sentence_end
          ) : found_pos \in {found_pos_} })
    IN  Found(PyRFind(text, p, 0, mstart))
  ) : text \in {text_}, last_sentence_end \in {last_sentence_end_}, p \in {p_} })

RECURSIVE SentenceEndLoop(_, _, _, _)
SentenceEndLoop(text_, mstart_, last_sentence_end_, k_) ==
  Value({ (
    IF k > Len(potential_ends) THEN last_sentence_end
    ELSE SentenceEndLoop(text, mstart,
                         SentenceEndStep(text, mstart, last_sentence_end, potential_ends[k]),
                         k + 1)
  ) : text \in {text_}, mstart \in {mstart_}, last_sentence_end \in {last_sentence_end_}, k \in {k_} })

\* pass 1 (lines 746-765)
CleanPass1(text_) ==
  Value({ (
    LET Cut(mstart, last_sentence_end_) ==
          Value({ (
            IF mstart >= 0 /\ last_sentence_end > 0
            THEN Strip(Slice(text, 0, last_sentence_end))
            ELSE text
          ) : last_sentence_end \in {last_sentence_end_} })
        Search(mstart_) ==
          Value({ (
                          Cut(mstart, SentenceEndLoop(text, mstart, -1, 1))
          ) : mstart \in {mstart_} })
    IN  Search(IncompleteSentenceMatch(text))
  ) : text \in {text_} })

EndPunctuation == {".", "!", "?", "\"", "'", "RDQ", "RSQ"}

AfterPunctuation == {" ", "\"", "'", "RDQ", "RSQ"}

\* pass 2 (lines 768-790)
CleanPass2(text_) ==
  Value({ (
    LET ends_with_punctuation == text # <<>> /\ text[Len(text)] \in EndPunctuation
        last_char_is_alphanum == text # <<>> /\ IsAlnum(text[Len(text)])
        Cut(last_sentence_end_, last_newline_) ==
          Value({ (
            IF last_sentence_end > 0
            THEN Strip(Slice(text, 0,
                             last_sentence_end + 1
                             + LeadRun(From(text, last_sentence_end + 1), AfterPunctuation)))
            ELSE IF last_newline > 0 /\ Len(text) - last_newline < 50
                 THEN Strip(Slice(text, 0, last_newline))
                 ELSE text
          ) : last_sentence_end \in {last_sentence_end_}, last_newline \in {last_newline_} })
    IN  IF ~ends_with_punctuation /\ last_char_is_alphanum
        THEN Cut(SetMax({PyRFindAll(text, <<".">>), PyRFindAll(text, <<"!">>),
                         PyRFindAll(text, <<"?">>), PyRFindAll(text, ParaSep)}),
                 PyRFindAll(text, <<"\n">>))
        ELSE text
  ) : text \in {text_} })

\* matching_quotes (line 798): its keys open a quote, its values close one;
\* the straight quotes are keys, and a key is looked up first (line 802)
OpeningQuotes == {"\"", "'", "LDQ", "LSQ"}

ClosingQuotes == {"\"", "'", "RDQ", "RSQ"}

MatchingQuote(c_) ==
  Value({ (
    CASE c = "\"" -> "\"" [] c = "'" -> "'" [] c = "LDQ" -> "RDQ" [] c = "LSQ" -> "RSQ"
  ) : c \in {c_} })

\* the loop of lines 801-808 over the quotation marks of the paragraph
RECURSIVE QuoteStack(_, _)
QuoteStack(quotes_, stack_) ==
  Value({ (
    IF quotes = <<>> THEN stack
    ELSE LET char == Head(quotes)
         IN  IF char \in OpeningQuotes
             THEN QuoteStack(Tail(quotes), Append(stack, char))
             ELSE IF stack # <<>> /\ char = MatchingQuote(stack[Len(stack)])
                  THEN QuoteStack(Tail(quotes), SubSeq(stack, 1, Len(stack) - 1))
                  ELSE QuoteStack(Tail(quotes), stack)
  ) : quotes \in {quotes_}, stack \in {stack_} })

OpenQuoteStack(paragraph_) ==
  Value({ (
    QuoteStack(SelectSeq(paragraph, LAMBDA c : c \in OpeningQuotes \cup ClosingQuotes), <<>>)
  ) : paragraph \in {paragraph_} })

\* pass 3 (lines 793-840)
CleanPass3(text_) ==
  Value({ (
    LET Cut(text_before_last_para, last_paragraph, last_open_quote_index,
            last_sentence_end_in_para) ==
            IF last_open_quote_index > last_sentence_end_in_para
            THEN IF last_sentence_end_in_para >= 0
                 THEN text_before_last_para
                      \o Strip(Slice(last_paragraph, 0,
                                     last_sentence_end_in_para + 1
                                     + LeadRun(Slice(last_paragraph,
                                                     last_sentence_end_in_para + 1,
                                                     last_open_quote_index),
                                               AfterPunctuation)))
                 ELSE Strip(text_before_last_para)
            ELSE text
        Before(joined_) ==
          Value({ (
                          IF joined # <<>> THEN joined \o ParaSep ELSE joined
          ) : joined \in {joined_} })
        Open(paragraphs_, last_paragraph_, last_open_quote_index_) ==
          Value({ (
            Cut(Before(Join(SubSeq(paragraphs, 1, Len(paragraphs) - 1), ParaSep)),
                last_paragraph, last_open_quote_index,
                SetMax({PyRFind(last_paragraph, <<".">>, 0, last_open_quote_index),
                        PyRFind(last_paragraph, <<"!">>, 0, last_open_quote_index),
                        PyRFind(last_paragraph, <<"?">>, 0, last_open_quote_index)}))
          ) : paragraphs \in {paragraphs_}, last_paragraph \in {last_paragraph_}, last_open_quote_index \in {last_open_quote_index_} })
        Quotes(paragraphs, last_paragraph_, open_quote_stack_) ==
          Value({ (
            IF last_paragraph # <<>> /\ open_quote_stack # <<>>
            THEN Open(paragraphs, last_paragraph,
                      PyRFindAll(last_paragraph, <<open_quote_stack[Len(open_quote_stack)]>>))
            ELSE text
          ) : last_paragraph \in {last_paragraph_}, open_quote_stack \in {open_quote_stack_} })
        Last(paragraphs, last_paragraph_) ==
          Value({ (
            Quotes(paragraphs, last_paragraph, OpenQuoteStack(last_paragraph))
          ) : last_paragraph \in {last_paragraph_} })
        Paragraphs(paragraphs_) ==
          Value({ (
                                  Last(paragraphs, Strip(paragraphs[Len(paragraphs)]))
          ) : paragraphs \in {paragraphs_} })
    IN  Paragraphs(Split(text, ParaSep))
  ) : text \in {text_} })

CONJUNCTIONS_AT_END ==
    { <<"a","n","d">>, <<"b","u","t">>, <<"o","r">>, <<"s","o">>, <<"y","e","t">>,
      <<"b","e","c","a","u","s","e">>, <<"i","f">>, <<"t","h","a","t">>,
      <<"w","h","e","n">>, <<"w","h","i","l","e">>,
      <<"a","l","t","h","o","u","g","h">> }

\* pass 4 without the branch of lines 862-865
CleanPass4OneBranch(text_) ==
  Value({ (
    LET Decide(dropped_, words_, ends_with_conj, second_last_ends_ok_) ==
          Value({ (
            IF (words < MIN_WORDS_FOR_VALID_ENDING \/ ends_with_conj) /\ second_last_ends_ok
            THEN dropped
            ELSE text
          ) : dropped \in {dropped_}, words \in {words_}, second_last_ends_ok \in {second_last_ends_ok_} })
        EndsOk(second_last_para_) ==
          Value({ (
            second_last_para # <<>> /\ second_last_para[Len(second_last_para)] \in EndPunctuation
          ) : second_last_para \in {second_last_para_} })
        LastWordCleaned(last_paragraph) ==
            StripSet(PyLower(LastWord(last_paragraph)),
                     {"\"", ".", "!", "?", ",", "RSQ", "RDQ", ")"})
        Last(paragraphs_, n_, last_paragraph_, words_) ==
          Value({ (
            Decide(Strip(Join(SubSeq(paragraphs, 1, n - 1), ParaSep)), words,
                   words > 0 /\ LastWordCleaned(last_paragraph) \in CONJUNCTIONS_AT_END,
                   EndsOk(Strip(paragraphs[n - 1])))
          ) : paragraphs \in {paragraphs_}, n \in {n_}, last_paragraph \in {last_paragraph_}, words \in {words_} })
        Words(paragraphs, n, last_paragraph_) ==
          Value({ (
            Last(paragraphs, n, last_paragraph, WordCount(last_paragraph))
          ) : last_paragraph \in {last_paragraph_} })
        Paragraphs(paragraphs_) ==
          Value({ (
            IF Len(paragraphs) > 1
            THEN Words(paragraphs, Len(paragraphs), Strip(paragraphs[Len(paragraphs)]))
            ELSE text
          ) : paragraphs \in {paragraphs_} })
    IN  Paragraphs(Split(text, ParaSep))
  ) : text \in {text_} })

\* pass 4 (lines 843-865)
CleanPass4(text_) ==
  Value({ (
    LET Decide(dropped_, words_, ends_with_conj, second_last_ends_ok_) ==
          Value({ (
            IF (words < MIN_WORDS_FOR_VALID_ENDING \/ ends_with_conj) /\ second_last_ends_ok
            THEN dropped
            ELSE IF words < 2 /\ ~second_last_ends_ok THEN dropped
            ELSE text
          ) : dropped \in {dropped_}, words \in {words_}, second_last_ends_ok \in {second_last_ends_ok_} })
        EndsOk(second_last_para_) ==
          Value({ (
            second_last_para # <<>> /\ second_last_para[Len(second_last_para)] \in EndPunctuation
          ) : second_last_para \in {second_last_para_} })
        LastWordCleaned(last_paragraph) ==
            StripSet(PyLower(LastWord(last_paragraph)),
                     {"\"", ".", "!", "?", ",", "RSQ", "RDQ", ")"})
        Last(paragraphs_, n_, last_paragraph_, words_) ==
          Value({ (
            Decide(Strip(Join(SubSeq(paragraphs, 1, n - 1), ParaSep)), words,
                   words > 0 /\ LastWordCleaned(last_paragraph) \in CONJUNCTIONS_AT_END,
                   EndsOk(Strip(paragraphs[n - 1])))
          ) : paragraphs \in {paragraphs_}, n \in {n_}, last_paragraph \in {last_paragraph_}, words \in {words_} })
        Words(paragraphs, n, last_paragraph_) ==
          Value({ (
            Last(paragraphs, n, last_paragraph, WordCount(last_paragraph))
          ) : last_paragraph \in {last_paragraph_} })
        Paragraphs(paragraphs_) ==
          Value({ (
            IF Len(paragraphs) > 1
            THEN Words(paragraphs, Len(paragraphs), Strip(paragraphs[Len(paragraphs)]))
            ELSE text
          ) : paragraphs \in {paragraphs_} })
    IN  Paragraphs(Split(text, ParaSep))
  ) : text \in {text_} })

\* _clean_text_ending (lines 737-871)
CleanTextEnding(text_) ==
  Value({ (
    IF text = <<>> \/ Len(Strip(text)) < MIN_CHARS_FOR_RESCUE \div 3
    THEN text
    ELSE CleanPass4(CleanPass3(CleanPass2(CleanPass1(RStrip(text)))))
  ) : text \in {text_} })

(***************************************************************************)
(* LANGUAGE_CONFIG["Englisch"]: the fixed texts the orchestrator embeds or  *)
(* searches for.  Every run of the model is in English.                     *)
(***************************************************************************)
\* line 415
ERROR_CHAPTER_CONTENT ==
    <<"A","n"," ","e","r","r","o","r"," ","o","c","c","u","r","r","e","d"," ","d","u","r","i","n",
    "g"," ","t","h","e"," ","g","e","n","e","r","a","t","i","o","n"," ","o","f"," ","t","h","i",
    "s"," ","c","h","a","p","t","e","r",".">>

\* line 416
RESCUED_CHAPTER_NOTICE ==
    <<"[","T","h","i","s"," ","c","h","a","p","t","e","r"," ","w","a","s"," ","s","h","o","r","t",
    "e","n","e","d"," ","d","u","e"," ","t","o"," ","t","e","c","h","n","i","c","a","l"," ","i",
    "s","s","u","e","s"," ","o","r"," ","c","o","u","l","d"," ","n","o","t"," ","b","e"," ","f",
    "u","l","l","y"," ","r","e","c","o","v","e","r","e","d","."," ","T","h","e"," ","s","t","o",
    "r","y"," ","c","o","n","t","i","n","u","e","s"," ","i","n"," ","t","h","e"," ","n","e","x",
    "t"," ","c","h","a","p","t","e","r",".","]">>

\* line 417
RESCUED_EPILOG_NOTICE ==
    <<"[","T","h","e"," ","s","t","o","r","y"," ","c","o","u","l","d"," ","n","o","t"," ","b","e",
    " ","f","u","l","l","y"," ","c","o","m","p","l","e","t","e","d","."," ","T","h","e"," ","e",
    "p","i","l","o","g","u","e"," ","i","s"," ","m","i","s","s","i","n","g"," ","o","r"," ","i",
    "n","c","o","m","p","l","e","t","e",".","]">>

\* line 418
SUMMARY_FIRST_CHAPTER ==
    <<"T","h","i","s"," ","i","s"," ","t","h","e"," ","f","i","r","s","t"," ","c","h","a","p","t",
    "e","r","."," ","N","o"," ","p","r","e","v","i","o","u","s"," ","c","o","n","t","e","x","t",
    " ","e","x","i","s","t","s",".">>

\* line 463
SUMMARY_LLM_PREFIX ==
    <<"*","*","C","o","n","t","e","x","t"," ","-"," ","S","u","m","m","a","r","y"," ","o","f"," ",
    "t","h","e"," ","p","r","e","v","i","o","u","s"," ","c","h","a","p","t","e","r"," ","(","A",
    "I","-","g","e","n","e","r","a","t","e","d",")",":","*","*">>

\* line 464
SUMMARY_RAW_END_MARKER_START ==
    <<"\n","\n","*","*","-","-","-"," ","E","X","A","C","T"," ","E","N","D","I","N","G"," ","O","F",
    " ","P","R","E","V","I","O","U","S"," ","C","H","A","P","T","E","R"," ","(","C","O","N","T",
    "E","X","T",")"," ","-","-","-","*","*">>

\* line 465
SUMMARY_RAW_END_MARKER_END ==
    <<"*","*","-","-","-"," ","E","N","D"," ","C","O","N","T","E","X","T"," ","-","-","-","*","*">>

\* line 466
SUMMARY_FALLBACK ==
    <<"[","C","o","n","t","e","x","t"," ","f","r","o","m"," ","t","h","e"," ","p","r","e","v","i",
    "o","u","s"," ","c","h","a","p","t","e","r"," ","c","o","u","l","d"," ","n","o","t"," ","b",
    "e"," ","a","u","t","o","m","a","t","i","c","a","l","l","y"," ","g","e","n","e","r","a","t",
    "e","d","."," ","P","l","e","a","s","e"," ","r","e","c","a","l","l"," ","t","h","e"," ","e",
    "v","e","n","t","s"," ","f","r","o","m"," ","t","h","e"," ","p","r","e","v","i","o","u","s",
    " ","c","h","a","p","t","e","r",".","]">>

\* line 471
RUNNING_SUMMARY_PLACEHOLDER ==
    <<"*","*","R","u","n","n","i","n","g"," ","S","u","m","m","a","r","y"," ","o","f"," ","t","h",
    "e"," ","E","n","t","i","r","e"," ","P","l","o","t"," ","S","o"," ","F","a","r",":","*","*",
    "\n">>

\* line 472
RUNNING_SUMMARY_INITIAL ==
    <<"T","h","e"," ","s","t","o","r","y"," ","b","e","g","i","n","s",".">>

\* line 476
ERROR_GENERATING_OUTLINE_FALLBACK ==
    <<"P","l","o","t"," ","o","u","t","l","i","n","e"," ","g","e","n","e","r","a","t","i","o","n",
    " ","f","a","i","l","e","d">>

\* line 413
EPILOG_TITLE ==
    <<"E","p","i","l","o","g","u","e">>

(***************************************************************************)
(* Headings: _format_chapter, _format_story and the epilogue's heading.    *)
(***************************************************************************)
NL == <<"\n">>

DigitText(d_) ==
  Value({ (
    CASE d = 0 -> "0" [] d = 1 -> "1" [] d = 2 -> "2" [] d = 3 -> "3" [] d = 4 -> "4"
      [] d = 5 -> "5" [] d = 6 -> "6" [] d = 7 -> "7" [] d = 8 -> "8" [] d = 9 -> "9"
  ) : d \in {d_} })

\* str(n) for 0 <= n < 1000
NumText(n_) ==
  Value({ (
    IF n < 10 THEN <<DigitText(n)>>
    ELSE IF n < 100 THEN <<DigitText(n \div 10), DigitText(n % 10)>>
    ELSE <<DigitText(n \div 100), DigitText((n \div 10) % 10), DigitText(n % 10)>>
  ) : n \in {n_} })

chapter_word == <<"C","h","a","p","t","e","r">>

\* p occurs in t at index i, letter case ignored (re.IGNORECASE)
OccursAtNoCase(t_, p_, i_) ==
  Value({ (
    /\ i >= 0
    /\ i + Len(p) <= Len(t)
    /\ \A k \in 1..Len(p) : LowerOf(t[i + k]) = LowerOf(p[k])
  ) : t \in {t_}, p \in {p_}, i \in {i_} })

\* \b at index i of t: a word character on exactly one side
WordBoundary(t_, i_) ==
  Value({ (
    (i >= 1 /\ i <= Len(t) /\ IsWordChar(t[i])) # (i < Len(t) /\ IsWordChar(t[i + 1]))
  ) : t \in {t_}, i \in {i_} })

\* the index just after "<chapter word>\s+<n>" when that starts at index i of t, or -1
ChapterNumberEnd(t_, n_, i_) ==
  Value({ (
    LET Digits(a_) ==
          Value({ (
                     IF OccursAt(t, NumText(n), a) THEN a + Len(NumText(n)) ELSE -1
          ) : a \in {a_} })
        Space(a, w_) == Value({ (IF w >= 1 THEN Digits(a + w) ELSE -1) : w \in {w_} })
        Word(a_) == Value({ (Space(a, LeadRun(From(t, a), WS))) : a \in {a_} })
    IN  IF OccursAtNoCase(t, chapter_word, i) THEN Word(i + Len(chapter_word)) ELSE -1
  ) : t \in {t_}, n \in {n_}, i \in {i_} })

HashOrSpace == WS \cup {"#"}

\* ^[#\s]*Chapter\s+n\b.* matches the line (line 1526)
LooseHeadingMatch(line_, n) ==
  Value({ (
    LET Bounded(e_) == Value({ (e # -1 /\ WordBoundary(line, e)) : e \in {e_} })
    IN  Bounded(ChapterNumberEnd(line, n, LeadRun(line, HashOrSpace)))
  ) : line \in {line_} })

\* ^\s*#+\s*Chapter\s+n\b.* matches the line (lines 1490, 1561)
HashHeadingMatch(line_, n) ==
  Value({ (
    LET Bounded(e_) == Value({ (e # -1 /\ WordBoundary(line, e)) : e \in {e_} })
        Marks(a_, h_) ==
          Value({ (
            h >= 1 /\ Bounded(ChapterNumberEnd(line, n, a + h + LeadRun(From(line, a + h), WS)))
          ) : a \in {a_}, h \in {h_} })
        Indent(a_) == Value({ (Marks(a, LeadRun(From(line, a), {"#"}))) : a \in {a_} })
    IN  Indent(LeadRun(line, WS))
  ) : line \in {line_} })

\* group 1 of [#\s]*(?:Chapter)\s+n\s*:?\s*(.*), stripped; empty without a match
\* (lines 1531-1532, 1566-1567)
SpecificTitlePart(line_, n) ==
  Value({ (
    LET Colon(r1_) ==
          Value({ (
                     Strip(IF r1 # <<>> /\ r1[1] = ":" THEN Tail(r1) ELSE r1)
          ) : r1 \in {r1_} })
        Rest(e_) == Value({ (IF e = -1 THEN <<>> ELSE Colon(LStrip(From(line, e)))) : e \in {e_} })
    IN  Rest(ChapterNumberEnd(line, n, LeadRun(line, HashOrSpace)))
  ) : line \in {line_} })

\* ## Chapter n, the heading of a chapter without a title of its own (lines 1488-1489)
DefaultHeading(n) == <<"#", "#", " ">> \o chapter_word \o <<" ">> \o NumText(n)

\* the heading a matched heading line is replaced by (lines 1536-1544, 1570-1578)
CorrectHeading(heading_text, n_) ==
  Value({ (
    LET Titled(specific_title_part_) ==
          Value({ (
            IF specific_title_part # <<>>
               /\ PyLower(specific_title_part) # PyLower(chapter_word \o <<" ">> \o NumText(n))
            THEN DefaultHeading(n) \o <<":", " ">> \o specific_title_part
            ELSE DefaultHeading(n)
          ) : specific_title_part \in {specific_title_part_} })
    IN  Titled(SpecificTitlePart(heading_text, n))
  ) : n \in {n_} })

\* list.insert(k, x), list[k] = x for a 0-based k within the list
InsertAt(lines_, k_, x) ==
  Value({ (
                         SubSeq(lines, 1, k) \o <<x>> \o SubSeq(lines, k + 1, Len(lines))
  ) : lines \in {lines_}, k \in {k_} })

ReplaceAt(lines, k, x) == [lines EXCEPT ![k + 1] = x]

IsBlank(line) == Strip(line) = <<>>

StartsWithHash(line) == StartsWith(Strip(line), <<"#">>)

\* while lines and not lines[0].strip(): lines.pop(0)
RECURSIVE DropBlankLines(_)
DropBlankLines(lines_) ==
  Value({ (
    IF lines # <<>> /\ IsBlank(lines[1]) THEN DropBlankLines(Tail(lines)) ELSE lines
  ) : lines \in {lines_} })

\* while lines and lines[0].strip().startswith("#"): lines.pop(0)
RECURSIVE DropHeadingLines(_)
DropHeadingLines(lines_) ==
  Value({ (
    IF lines # <<>> /\ StartsWithHash(lines[1]) THEN DropHeadingLines(Tail(lines)) ELSE lines
  ) : lines \in {lines_} })

\* insert a blank line after index k when a non-blank line follows it
BlankAfter(lines_, k_) ==
  Value({ (
    IF Len(lines) > k + 1 /\ ~IsBlank(lines[k + 2]) THEN InsertAt(lines, k + 1, <<>>) ELSE lines
  ) : lines \in {lines_}, k \in {k_} })

MainTitlePrefix(titel) == <<"#", " ">> \o titel

\* ^#+\s*<titel> matches the line (line 1510)
TitleHeadingMatch(line_, titel) ==
  Value({ (
    LET h == LeadRun(line, {"#"})
    IN  h >= 1 /\ OccursAt(line, titel, h + LeadRun(From(line, h), WS))
  ) : line \in {line_} })

\* part 1 of the first chapter: the main title (lines 1498-1513)
EnsureMainTitle(lines_, titel_) ==
  Value({ (
    IF lines = <<>> \/ ~StartsWith(Strip(lines[1]), MainTitlePrefix(titel))
    THEN BlankAfter(<<MainTitlePrefix(titel)>> \o DropHeadingLines(lines), 0)
    ELSE IF Strip(lines[1]) # MainTitlePrefix(titel) /\ TitleHeadingMatch(Strip(lines[1]), titel)
         THEN ReplaceAt(lines, 0, MainTitlePrefix(titel))
         ELSE lines
  ) : lines \in {lines_}, titel \in {titel_} })

\* part 2 of the first chapter: its own heading (lines 1515-1554)
EnsureFirstHeading(lines_, titel) ==
  Value({ (
    LET Put(k, heading_text, correct_ch1_heading_) ==
          Value({ (
            IF heading_text # correct_ch1_heading THEN ReplaceAt(lines, k, correct_ch1_heading)
            ELSE lines
          ) : correct_ch1_heading \in {correct_ch1_heading_} })
        Heading(k_, heading_text_) ==
          Value({ (
            IF LooseHeadingMatch(heading_text, 1)
            THEN Put(k, heading_text, CorrectHeading(heading_text, 1))
            ELSE BlankAfter(InsertAt(lines, k, DefaultHeading(1)), k)
          ) : k \in {k_}, heading_text \in {heading_text_} })
        Content(content_start_index_) ==
          Value({ (
            IF Len(lines) > content_start_index
            THEN Heading(content_start_index, Strip(lines[content_start_index + 1]))
            ELSE BlankAfter(InsertAt(lines, content_start_index, DefaultHeading(1)),
                            content_start_index)
          ) : content_start_index \in {content_start_index_} })
    IN  Content(IF lines # <<>> /\ Strip(lines[1]) = MainTitlePrefix(titel)
                THEN IF Len(lines) > 1 /\ IsBlank(lines[2]) THEN 2 ELSE 1
                ELSE 0)
  ) : lines \in {lines_} })

\* chapters after the first (lines 1557-1592)
EnsureHeading(lines_, n_) ==
  Value({ (
    LET Put(heading_text, correct_heading_) ==
          Value({ (
            IF heading_text # correct_heading THEN ReplaceAt(lines, 0, correct_heading)
            ELSE lines
          ) : correct_heading \in {correct_heading_} })
        Added(rest) == BlankAfter(<<DefaultHeading(n)>> \o rest, 0)
        Heading(heading_text_) ==
          Value({ (
            IF HashHeadingMatch(heading_text, n)
            THEN Put(heading_text, CorrectHeading(heading_text, n))
            ELSE Added(IF StartsWithHash(lines[1]) THEN Tail(lines) ELSE lines)
          ) : heading_text \in {heading_text_} })
    IN  IF lines # <<>> THEN Heading(Strip(lines[1])) ELSE Added(lines)
  ) : lines \in {lines_}, n \in {n_} })

\* _format_chapter (lines 1469-1594)
FormatChapter(chapter_number_, chapter_text, titel_) ==
  Value({ (
    LET lines == DropBlankLines(Split(Strip(chapter_text), NL))
    IN  Strip(Join(IF chapter_number = 1
                   THEN EnsureFirstHeading(EnsureMainTitle(lines, titel), titel)
                   ELSE EnsureHeading(lines, chapter_number),
                   NL))
  ) : chapter_number \in {chapter_number_}, titel \in {titel_} })

\* while lines and lines[0] is a heading other than the title: lines.pop(0)
RECURSIVE DropWrongHeadings(_, _)
DropWrongHeadings(lines_, titel_) ==
  Value({ (
    IF lines # <<>> /\ StartsWithHash(lines[1]) /\ Strip(lines[1]) # MainTitlePrefix(titel)
    THEN DropWrongHeadings(Tail(lines), titel)
    ELSE lines
  ) : lines \in {lines_}, titel \in {titel_} })

\* _format_story (lines 720-735)
FormatStory(story, titel_) ==
  Value({ (
    LET Choose(s_, t_) ==
          Value({ (
            IF StartsWith(s, MainTitlePrefix(titel)) THEN s
            ELSE IF StartsWith(t, MainTitlePrefix(titel)) THEN t
            ELSE MainTitlePrefix(titel) \o ParaSep \o t
          ) : s \in {s_}, t \in {t_} })
        Stripped(s_) ==
          Value({ (
                       Choose(s, Strip(Join(DropWrongHeadings(Split(s, NL), titel), NL)))
          ) : s \in {s_} })
    IN  Stripped(Strip(story))
  ) : titel \in {titel_} })

epilogue_title_correct == <<"#", "#", " ">> \o EPILOG_TITLE

\* the heading of a returned epilogue (lines 1663-1695)
FormatEpilogue(text, titel) ==
    LET Put(lines_, heading_text, correct_heading_) ==
          Value({ (
            Join(IF heading_text # correct_heading THEN ReplaceAt(lines, 0, correct_heading)
                 ELSE lines, NL)
          ) : lines \in {lines_}, correct_heading \in {correct_heading_} })
        \* specific_title: group 1 of ##\s*(.*), stripped
        Title(lines, heading_text, specific_title_) ==
          Value({ (
            Put(lines, heading_text,
                IF PyLower(specific_title) = PyLower(titel) THEN epilogue_title_correct
                ELSE IF PyLower(specific_title) # PyLower(EPILOG_TITLE)
                     THEN <<"#", "#", " ">> \o specific_title
                     ELSE epilogue_title_correct)
          ) : specific_title \in {specific_title_} })
        Heading(lines, heading_text_) ==
          Value({ (
                                        Title(lines, heading_text, Strip(From(heading_text, 2)))
          ) : heading_text \in {heading_text_} })
        Lines(epilogue_text, lines_) ==
          Value({ (
            IF ~StartsWith(epilogue_text, <<"#", "#">>)
            THEN epilogue_title_correct \o ParaSep \o Strip(Join(DropHeadingLines(lines), NL))
            ELSE Heading(lines, Strip(lines[1]))
          ) : lines \in {lines_} })
        Stripped(epilogue_text_) ==
          Value({ (
                                   Lines(epilogue_text, Split(epilogue_text, NL))
          ) : epilogue_text \in {epilogue_text_} })
    IN  Stripped(Strip(text))

(***************************************************************************)
(* generate: the buffered target and the choice of mode (lines 1753-1780). *)
(***************************************************************************)
TOKEN_WORD_RATIO_TENTHS == 16

WORD_COUNT_BUFFER_FACTOR_TENTHS == 28

estimated_input_tokens == 1500

\* the largest power of two that is at most k, for 1 <= k < 2^30
Pow2Floor(k_) == Value({ (2 ^ (CHOOSE e \in 0..30 : 2 ^ e <= k /\ k < 2 ^ (e + 1))) : k \in {k_} })

\* int(word_count * 2.8) in double arithmetic: the stored factor lies 0.4 * 2^-51
\* below 2.8, so a product that would be a whole number k can round to the double
\* below k and is then truncated to k - 1
BufferedWordCount(word_count_) ==
  Value({ (
    LET k == (word_count * WORD_COUNT_BUFFER_FACTOR_TENTHS) \div 10
    IN  IF word_count > 0 /\ (word_count * WORD_COUNT_BUFFER_FACTOR_TENTHS) % 10 = 0
           /\ 8 * word_count > 5 * Pow2Floor(k)
        THEN k - 1
        ELSE k
  ) : word_count \in {word_count_} })

\* lines 1753-1764
TargetWordCount(word_count, chapter_mode) ==
    LET t == BufferedWordCount(word_count)
    IN  IF t < MIN_STORY_WORDS THEN MIN_STORY_WORDS
        ELSE IF t > MAX_STORY_WORDS_NO_CHAPTERS /\ ~chapter_mode THEN MAX_STORY_WORDS_NO_CHAPTERS
        ELSE t

\* target > (MAX_TOKENS_PER_CALL - 1500) / 1.6 (lines 1771-1773, 1792)
ExceedsSingleCall(target) ==
    target * TOKEN_WORD_RATIO_TENTHS > (MAX_TOKENS_PER_CALL - estimated_input_tokens) * 10

\* lines 1777-1780
UseChapterMode(target_, chapter_mode, max_words_per_chapter) ==
  Value({ (
    chapter_mode /\ (target > max_words_per_chapter \/ ExceedsSingleCall(target))
  ) : target \in {target_} })

(***************************************************************************)
(* _optimize_chapter_structure (lines 873-909).                            *)
(***************************************************************************)
Max2(a_, b_) == Value({ (IF a >= b THEN a ELSE b) : a \in {a_}, b \in {b_} })

\* math.ceil(a / b)
CeilDiv(a, b_) == Value({ ((a + b - 1) \div b) : b \in {b_} })

\* round(a / b): halves go to the even neighbour
PyRoundDiv(a_, b_) ==
  Value({ (
    LET q == a \div b
        r == a % b
    IN  IF 2 * r < b THEN q
        ELSE IF 2 * r > b THEN q + 1
        ELSE IF q % 2 = 0 THEN q ELSE q + 1
  ) : a \in {a_}, b \in {b_} })

\* a variant of the distribution that leaves the remainder out
DistributeBase(word_count_, num_chapters_) ==
  Value({ (
    [k \in 1..num_chapters |-> word_count \div num_chapters]
  ) : word_count \in {word_count_}, num_chapters \in {num_chapters_} })

\* lines 885-890
Distribute(word_count_, num_chapters_) ==
  Value({ (
    [k \in 1..num_chapters |->
        (word_count \div num_chapters) + (IF k <= word_count % num_chapters THEN 1 ELSE 0)]
  ) : word_count \in {word_count_}, num_chapters \in {num_chapters_} })

\* a variant of the first number of chapters that rounds halves up
InitialChapterCountHalfUp(word_count_, max_words_per_chapter_) ==
  Value({ (
    LET n0 == IF 2 * word_count <= 3 * max_words_per_chapter
              THEN Max2(1, CeilDiv(word_count, max_words_per_chapter))
              ELSE Max2(MIN_CHAPTERS_LONG_STORY,
                        (2 * word_count + TARGET_WORDS_PER_CHAPTER_DIVISOR)
                            \div (2 * TARGET_WORDS_PER_CHAPTER_DIVISOR))
    IN  Max2(1, n0)
  ) : word_count \in {word_count_}, max_words_per_chapter \in {max_words_per_chapter_} })

\* lines 875-883: the number of chapters computed first
InitialChapterCount(word_count_, max_words_per_chapter_) ==
  Value({ (
    LET n0 == IF 2 * word_count <= 3 * max_words_per_chapter
              THEN Max2(1, CeilDiv(word_count, max_words_per_chapter))
              ELSE Max2(MIN_CHAPTERS_LONG_STORY,
                        PyRoundDiv(word_count, TARGET_WORDS_PER_CHAPTER_DIVISOR))
    IN  Max2(1, n0)
  ) : word_count \in {word_count_}, max_words_per_chapter \in {max_words_per_chapter_} })

\* lines 894-895: a share exceeds max_allowed_flex, max_words_per_chapter * 1.1
ExceedsFlex(words_per_chapter_, max_words_per_chapter_) ==
  Value({ (
    \E k \in 1..Len(words_per_chapter) : 10 * words_per_chapter[k] > 11 * max_words_per_chapter
  ) : words_per_chapter \in {words_per_chapter_},
      max_words_per_chapter \in {max_words_per_chapter_} })

\* a variant of the recalculation that adds a second chapter when a share still
\* exceeds the limit
RebalanceTwice(word_count_, num_chapters_, max_words_per_chapter_) ==
  Value({ (
    IF ~ExceedsFlex(Distribute(word_count, num_chapters), max_words_per_chapter)
    THEN num_chapters
    ELSE IF ~ExceedsFlex(Distribute(word_count, num_chapters + 1), max_words_per_chapter)
    THEN num_chapters + 1
    ELSE num_chapters + 2
  ) : word_count \in {word_count_}, num_chapters \in {num_chapters_},
      max_words_per_chapter \in {max_words_per_chapter_} })

\* lines 892-900: one more chapter when a share of the first distribution exceeds
\* the limit, and never more than one
Rebalance(word_count_, num_chapters_, max_words_per_chapter_) ==
  Value({ (
    IF ExceedsFlex(Distribute(word_count, num_chapters), max_words_per_chapter)
    THEN num_chapters + 1
    ELSE num_chapters
  ) : word_count \in {word_count_}, num_chapters \in {num_chapters_},
      max_words_per_chapter \in {max_words_per_chapter_} })

\* line 906: the floor of every share
minimum_floor == 100

\* a variant of the floor that leaves the shares as they were distributed
KeepShares(words_per_chapter) == words_per_chapter

\* line 906
FloorShares(words_per_chapter_) ==
  Value({ (
    [k \in 1..Len(words_per_chapter) |-> Max2(minimum_floor, words_per_chapter[k])]
  ) : words_per_chapter \in {words_per_chapter_} })

\* _optimize_chapter_structure (lines 873-909)
OptimizeChapterStructure(word_count_, max_words_per_chapter_) ==
  Value({ (
    LET n1 == InitialChapterCount(word_count, max_words_per_chapter)
        n2 == Rebalance(word_count, n1, max_words_per_chapter)
    IN  [num_chapters |-> n2,
         words_per_chapter |-> FloorShares(Distribute(word_count, n2))]
  ) : word_count \in {word_count_}, max_words_per_chapter \in {max_words_per_chapter_} })

(***************************************************************************)
(* _extract_outline_segment (lines 914-965).                               *)
(***************************************************************************)
\* ^ with re.MULTILINE at index i
LineStart(t_, i_) == Value({ (i = 0 \/ (i <= Len(t) /\ t[i] = "\n")) : t \in {t_}, i \in {i_} })

ColonOrSpace == WS \cup {":"}

end_words ==
    << <<"E","p","i","l","o","g">>, <<"F","a","z","i","t">>,
       <<"C","o","n","c","l","u","s","i","o","n">>, <<"S","u","m","m","a","r","y">>,
       <<"G","e","s","a","m","t","f","a","z","i","t">>,
       <<"F","i","n","a","l"," ","T","h","o","u","g","h","t","s">> >>

\* the end of a match of ^[#\s]*Chapter\s+n\b[:\s]*\n? that starts at index i, or -1
StartPatternEnd(t_, n, i_) ==
  Value({ (
    LET Rest(e_) ==
          Value({ (
            IF e # -1 /\ WordBoundary(t, e) THEN e + LeadRun(From(t, e), ColonOrSpace) ELSE -1
          ) : e \in {e_} })
    IN  IF LineStart(t, i)
        THEN Rest(ChapterNumberEnd(t, n, i + LeadRun(From(t, i), HashOrSpace)))
        ELSE -1
  ) : t \in {t_}, i \in {i_} })

\* the end of a match of ^[#\s]*n[.:]\s*\n? that starts at index i, or -1
NumOnlyPatternEnd(t_, n_, i_) ==
  Value({ (
    LET Mark(e_) ==
          Value({ (
            IF e < Len(t) /\ t[e + 1] \in {".", ":"} THEN e + 1 + LeadRun(From(t, e + 1), WS)
            ELSE -1
          ) : e \in {e_} })
        Digits(a_) ==
          Value({ (
                     IF OccursAt(t, NumText(n), a) THEN Mark(a + Len(NumText(n))) ELSE -1
          ) : a \in {a_} })
    IN  IF LineStart(t, i) THEN Digits(i + LeadRun(From(t, i), HashOrSpace)) ELSE -1
  ) : t \in {t_}, n \in {n_}, i \in {i_} })

\* a variant without end pattern: every segment runs to the end of the outline
EndPatternNever(t, n, i) == FALSE

\* the end pattern matches at index i
EndPatternAt(t_, n_, i_) ==
  Value({ (
    LET Bounded(e_) == Value({ (e # -1 /\ WordBoundary(t, e)) : e \in {e_} })
        Heading(a_) ==
          Value({ (
            \/ Bounded(ChapterNumberEnd(t, n + 1, a))
            \/ \E k \in 1..Len(end_words) : OccursAtNoCase(t, end_words[k], a)
          ) : a \in {a_} })
    IN  LineStart(t, i) /\ Heading(i + LeadRun(From(t, i), HashOrSpace))
  ) : t \in {t_}, n \in {n_}, i \in {i_} })

\* a variant in which a missing segment yields the whole outline
WholeOutlineWhenNoSegment(plot_outline, chapter_number) == plot_outline

\* _extract_outline_segment (lines 914-965)
ExtractOutlineSegment(plot_outline_, chapter_number_) ==
  Value({ (
    LET NotEmpty(segment_) ==
          Value({ (
                             IF segment = <<>> THEN None ELSE segment
          ) : segment \in {segment_} })
        Cut(start_index, ends_) ==
          Value({ (
            NotEmpty(Strip(Slice(plot_outline, start_index,
                                 IF ends # {} THEN SetMin(ends) ELSE Len(plot_outline))))
          ) : ends \in {ends_} })
        Segment(start_index_) ==
          Value({ (
            Cut(start_index, {i \in start_index..Len(plot_outline) :
                                 EndPatternAt(plot_outline, chapter_number, i)})
          ) : start_index \in {start_index_} })
        NumberOnly(starts_) ==
          Value({ (
            IF starts = {} THEN None
            ELSE Segment(NumOnlyPatternEnd(plot_outline, chapter_number, SetMin(starts)))
          ) : starts \in {starts_} })
        Heading(starts_) ==
          Value({ (
            IF starts # {}
            THEN Segment(StartPatternEnd(plot_outline, chapter_number, SetMin(starts)))
            ELSE NumberOnly({i \in 0..Len(plot_outline) :
                                NumOnlyPatternEnd(plot_outline, chapter_number, i) # -1})
          ) : starts \in {starts_} })
    IN  IF plot_outline = <<>> \/ Contains(plot_outline, ERROR_GENERATING_OUTLINE_FALLBACK)
        THEN None
        ELSE Heading({i \in 0..Len(plot_outline) :
                         StartPatternEnd(plot_outline, chapter_number, i) # -1})
  ) : plot_outline \in {plot_outline_}, chapter_number \in {chapter_number_} })

(***************************************************************************)
(* _generate_chapter_summary_llm and _update_running_summary_llm.          *)
(***************************************************************************)
chars_for_raw_end == 800

\* re.sub(r'^(w1|w2)[:\s]*', '', t, flags=IGNORECASE | MULTILINE) from index lo on
RECURSIVE SubLinePrefix(_, _, _)
SubLinePrefix(t_, words_, lo_) ==
  Value({ (
    LET Label(m_, w_) ==
          Value({ (
            Slice(t, lo, m)
            \o SubLinePrefix(t, words, m + Len(w) + LeadRun(From(t, m + Len(w)), ColonOrSpace))
          ) : m \in {m_}, w \in {w_} })
        First(m_) ==
          Value({ (
            Label(m, words[CHOOSE k \in 1..Len(words) :
                              OccursAtNoCase(t, words[k], m)
                              /\ \A j \in 1..(k - 1) : ~OccursAtNoCase(t, words[j], m)])
          ) : m \in {m_} })
        Hits(hits_) ==
          Value({ (
                      IF hits = {} THEN From(t, lo) ELSE First(SetMin(hits))
          ) : hits \in {hits_} })
    IN  Hits({i \in lo..Len(t) :
                 LineStart(t, i) /\ \E k \in 1..Len(words) : OccursAtNoCase(t, words[k], i)})
  ) : t \in {t_}, words \in {words_}, lo \in {lo_} })

summary_labels == << <<"Z","u","s","a","m","m","e","n","f","a","s","s","u","n","g">>,
                     <<"S","u","m","m","a","r","y">> >>

running_labels ==
    << <<"A","k","t","u","a","l","i","s","i","e","r","t","e"," ",
         "G","e","s","a","m","t","z","u","s","a","m","m","e","n","f","a","s","s","u","n","g">>,
       <<"U","p","d","a","t","e","d"," ","O","v","e","r","a","l","l"," ","S","u","m","m","a","r","y">> >>

\* step 1: the raw end of the chapter (lines 977-997)
RawEnd(chapter_text_) ==
  Value({ (
    LET Trim(r1_) ==
          Value({ (
            Strip(IF 2 * Len(r1) > 3 * chars_for_raw_end
                  THEN LastChars(r1, (chars_for_raw_end * 3) \div 2)
                  ELSE r1)
          ) : r1 \in {r1_} })
        Break(raw_end_candidate_, last_para_break_) ==
          Value({ (
            Trim(IF 10 * last_para_break > 3 * Len(raw_end_candidate)
                 THEN Strip(From(raw_end_candidate, last_para_break))
                 ELSE Strip(raw_end_candidate))
          ) : raw_end_candidate \in {raw_end_candidate_}, last_para_break \in {last_para_break_} })
        Candidate(raw_end_candidate_) ==
          Value({ (
            Break(raw_end_candidate,
                  PyRFind(raw_end_candidate, ParaSep, 0, Len(raw_end_candidate)))
          ) : raw_end_candidate \in {raw_end_candidate_} })
        Stripped(chapter_text_stripped_) ==
          Value({ (
            Candidate(From(chapter_text_stripped,
                           Max2(0, Len(chapter_text_stripped) - chars_for_raw_end)))
          ) : chapter_text_stripped \in {chapter_text_stripped_} })
    IN  IF chapter_text = <<>> THEN <<>> ELSE Stripped(Strip(chapter_text))
  ) : chapter_text \in {chapter_text_} })

\* the fallback synopsis (line 1001)
FallbackSummaryPart == SUMMARY_LLM_PREFIX \o NL \o SUMMARY_FALLBACK

\* synopsis followed by the marked raw end (lines 1006-1010, 1047-1051, 1059-1063)
CombinedContext(llm_summary_part_, raw_end_text_only_) ==
  Value({ (
    IF raw_end_text_only # <<>>
    THEN llm_summary_part \o SUMMARY_RAW_END_MARKER_START \o NL \o raw_end_text_only
         \o NL \o SUMMARY_RAW_END_MARKER_END
    ELSE llm_summary_part
  ) : llm_summary_part \in {llm_summary_part_}, raw_end_text_only \in {raw_end_text_only_} })

\* the chapter is long enough for a synopsis request (line 1003)
SummaryCallNeeded(chapter_text_) ==
  Value({ (
                                   chapter_text # <<>> /\ Len(Strip(chapter_text)) >= 100
  ) : chapter_text \in {chapter_text_} })

\* lines 1035-1044
SummaryPartOf(content) ==
    LET Part(summary_text_) ==
          Value({ (
            IF summary_text = <<>> THEN FallbackSummaryPart
            ELSE SUMMARY_LLM_PREFIX \o NL \o summary_text
          ) : summary_text \in {summary_text_} })
    IN  Part(Strip(SubLinePrefix(Strip(content), summary_labels, 0)))

\* the pair returned for a synopsis part and the raw end
ContextPair(llm_summary_part, raw_end_text_only_) ==
  Value({ (
    <<CombinedContext(llm_summary_part, raw_end_text_only), raw_end_text_only>>
  ) : raw_end_text_only \in {raw_end_text_only_} })

\* the pair returned when the request returned content
SummaryReturned(chapter_text, content) == ContextPair(SummaryPartOf(content), RawEnd(chapter_text))

\* a variant of the fallback pair that drops the raw end
SummaryFallbackNoTail(chapter_text) == <<FallbackSummaryPart, <<>>>>

\* the pair returned without a request or after a failed one
SummaryFallback(chapter_text) == ContextPair(FallbackSummaryPart, RawEnd(chapter_text))

\* the running summary is long enough for an update request (line 1084)
RunningCallNeeded(new_chapter_text_) ==
  Value({ (
    new_chapter_text # <<>> /\ Len(Strip(new_chapter_text)) >= 50
  ) : new_chapter_text \in {new_chapter_text_} })

\* a variant of the update that takes the response as it is, an empty one included
RunningReturnedLossy(previous_summary, content) ==
    RUNNING_SUMMARY_PLACEHOLDER \o Strip(SubLinePrefix(Strip(content), running_labels, 0))

\* lines 1116-1129
RunningReturned(previous_summary, content) ==
    LET Updated(updated_summary_text_) ==
          Value({ (
            IF updated_summary_text = <<>> THEN previous_summary
            ELSE RUNNING_SUMMARY_PLACEHOLDER \o updated_summary_text
          ) : updated_summary_text \in {updated_summary_text_} })
    IN  Updated(Strip(SubLinePrefix(Strip(content), running_labels, 0)))

(***************************************************************************)
(* The environment: what the text-generation service returns or raises,    *)
(* and the requests the runs are started with.                             *)
(***************************************************************************)
Titel ==
    <<"T","a","l","e">>

CHAPTER_LONG ==
    <<"T","h","e"," ","r","a","i","n"," ","f","e","l","l"," ","o","n"," ","t","h","e"," ","o","l",
    "d"," ","t","o","w","n"," ","a","n","d"," ","t","h","e"," ","r","i","v","e","r"," ","r","o",
    "s","e","."," ","M","a","r","a"," ","w","a","l","k","e","d"," ","h","o","m","e"," ","a","l",
    "o","n","g"," ","t","h","e"," ","q","u","a","y"," ","a","n","d"," ","d","i","d"," ","n","o",
    "t"," ","l","o","o","k"," ","b","a","c","k"," ","o","n","c","e",".">>

EPILOGUE_LONG ==
    <<"Y","e","a","r","s"," ","l","a","t","e","r"," ","t","h","e"," ","r","i","v","e","r"," ","r",
    "a","n"," ","c","l","e","a","r"," ","a","g","a","i","n","."," ","M","a","r","a"," ","k","e",
    "p","t"," ","t","h","e"," ","m","a","p"," ","i","n"," ","a"," ","d","r","a","w","e","r"," ",
    "a","n","d"," ","t","o","l","d"," ","n","o"," ","o","n","e"," ","w","h","e","r","e"," ","t",
    "h","e"," ","o","l","d"," ","t","o","w","n"," ","s","t","o","o","d",".">>

STORY_LONG ==
    <<"M","a","r","a"," ","f","o","u","n","d"," ","a"," ","m","a","p"," ","i","n"," ","t","h","e",
    " ","a","t","t","i","c","."," ","S","h","e"," ","f","o","l","l","o","w","e","d"," ","t","h",
    "e"," ","r","i","v","e","r"," ","t","o"," ","t","h","e"," ","o","l","d"," ","t","o","w","n",
    ","," ","a","n","d"," ","t","h","e","r","e"," ","s","h","e"," ","l","e","a","r","n","e","d",
    " ","w","h","y"," ","n","o","b","o","d","y"," ","s","p","o","k","e"," ","o","f"," ","i","t",
    ".">>

OUTLINE_STRUCTURED ==
    <<"C","h","a","p","t","e","r"," ","1",":"," ","R","a","i","n","\n","M","a","r","a"," ","f","i",
    "n","d","s"," ","a"," ","m","a","p",".","\n","\n","C","h","a","p","t","e","r"," ","2",":",
    " ","R","i","v","e","r","\n","S","h","e"," ","f","o","l","l","o","w","s"," ","i","t",".",
    "\n","\n","E","p","i","l","o","g","u","e","\n","P","e","a","c","e",".">>

OUTLINE_PROSE ==
    <<"M","a","r","a"," ","f","i","n","d","s"," ","a"," ","m","a","p"," ","a","n","d"," ","f","o",
    "l","l","o","w","s"," ","t","h","e"," ","r","i","v","e","r",".">>

OUTLINE_NUMBERED ==
    <<"1","."," ","R","a","i","n","\n","2","."," ","R","i","v","e","r","\n","3",":"," ","S","e",
    "a">>

OUTLINE_EMPTY_PARTS ==
    <<"C","h","a","p","t","e","r"," ","1",":","\n","C","h","a","p","t","e","r"," ","2",":"," ",
    "R","i","v","e","r","\n","C","h","a","p","t","e","r"," ","3",":","\n">>

OUTLINE_MARKDOWN ==
    <<"P","l","a","n","\n","#","#"," ","c","h","a","p","t","e","r"," ","1","\n","R","a","i","n",
    ".","\n","#","#"," ","C","H","A","P","T","E","R"," ","2","\n","R","i","v","e","r",".",
    "\n","C","o","n","c","l","u","s","i","o","n","\n","E","n","d",".">>

\* the outlines that the outline request is taken to return
OutlineSamples ==
    {OUTLINE_STRUCTURED, OUTLINE_PROSE, OUTLINE_NUMBERED, OUTLINE_EMPTY_PARTS, OUTLINE_MARKDOWN}

SUMMARY_TEXT ==
    <<"S","u","m","m","a","r","y",":"," ","M","a","r","a"," ","w","a","l","k","e","d"," ","h","o",
    "m","e",".">>

RUNNING_TEXT ==
    <<"U","p","d","a","t","e","d"," ","O","v","e","r","a","l","l"," ","S","u","m","m","a","r","y",
    ":"," ","M","a","r","a"," ","i","s"," ","h","o","m","e",".">>

ERROR_OVERLOADED ==
    <<"E","r","r","o","r"," ","c","o","d","e",":"," ","5","0","3">>

ERROR_FATAL ==
    <<"I","n","c","o","r","r","e","c","t"," ","A","P","I"," ","k","e","y"," ","p","r","o","v","i",
    "d","e","d">>

\* messages of errors raised to the retry executor when it is run on its own
ERROR_TIMEOUT ==
    <<"R","e","q","u","e","s","t"," ","t","i","m","e","o","u","t">>

ERROR_RATE_LIMIT ==
    <<"R","a","t","e"," ","l","i","m","i","t"," ","r","e","a","c","h","e","d">>

retryable_markers ==
    << <<"o","v","e","r","l","o","a","d","e","d">>,
       <<"r","a","t","e"," ","l","i","m","i","t">>,
       <<"t","i","m","e","o","u","t">>,
       <<"5","0","3">>,
       <<"5","0","4">>,
       <<"c","o","n","n","e","c","t","i","o","n"," ","e","r","r","o","r">>,
       <<"s","e","r","v","i","c","e"," ","u","n","a","v","a","i","l","a","b","l","e">> >>
\* the markers of the idea generator's executor (idea_generator.py, lines 223-224)
idea_retryable_markers ==
    << <<"o","v","e","r","l","o","a","d","e","d">>,
       <<"r","a","t","e","_","l","i","m","i","t">>,
       <<"t","i","m","e","o","u","t">>,
       <<"5","0","3">>,
       <<"5","0","4">> >>

ErrorMessages == {ERROR_OVERLOADED, ERROR_FATAL}

ExecutorErrors == {ERROR_OVERLOADED, ERROR_TIMEOUT, ERROR_RATE_LIMIT, ERROR_FATAL}

\* the positions at which a retry executor runs on its own: the story generator's
\* and the idea generator's
ExecutorPositions == {"Executor", "IdeaExecutor"}

\* str(e) of the errors a request can raise at position p
ErrorsAt(p) == IF p \in ExecutorPositions THEN ExecutorErrors ELSE ErrorMessages

\* is_retryable (lines 553-565); the environment's errors are instances of none of
\* the client's error classes, so the message decides
IsRetryable(error_str_) ==
  Value({ (
    \E k \in 1..Len(retryable_markers) : Contains(PyLower(error_str), retryable_markers[k])
  ) : error_str \in {error_str_} })

\* is_retryable of the idea generator's executor (idea_generator.py, lines 221-224)
IdeaIsRetryable(error_str_) ==
  Value({ (
    \E k \in 1..Len(idea_retryable_markers) :
        Contains(PyLower(error_str), idea_retryable_markers[k])
  ) : error_str \in {error_str_} })

\* is_retryable of the executor that runs at position p
IsRetryableAt(p, error_str) ==
    IF p \in {"IdeaExecutor", "ProposalsRequest"} THEN IdeaIsRetryable(error_str)
    ELSE IsRetryable(error_str)

\* the language names generate is called with
Englisch == <<"E","n","g","l","i","s","c","h">>

Deutsch == <<"D","e","u","t","s","c","h">>

Latein == <<"L","a","t","e","i","n">>

\* a variant that falls back to English for an unsupported language
GetLangConfigOrEnglisch(sprache_) ==
  Value({ (
    IF PyLower(sprache) \in {PyLower(Deutsch), <<"g","e","r","m","a","n">>, <<"d","e">>} THEN Deutsch
    ELSE Englisch
  ) : sprache \in {sprache_} })

\* _get_lang_config (lines 502-517): the name of the configuration, None when the
\* language is unsupported (the ValueError of line 516)
GetLangConfig(sprache_) ==
  Value({ (
    LET lang_lower == PyLower(sprache)
    IN  IF lang_lower \in {PyLower(Deutsch), <<"g","e","r","m","a","n">>, <<"d","e">>} THEN Deutsch
        ELSE IF lang_lower \in {PyLower(Englisch), <<"e","n","g","l","i","s","h">>, <<"e","n">>}
             THEN Englisch
        ELSE IF sprache \in {Deutsch, Englisch} THEN sprache
        ELSE None
  ) : sprache \in {sprache_} })

\* the requests: word_count, chapter_mode, max_words_per_chapter, sprache of generate
Configs ==
    { [word_count |-> 500,  chapter_mode |-> TRUE,  max_words_per_chapter |-> 1000,  sprache |-> Englisch],
      [word_count |-> 3100, chapter_mode |-> TRUE,  max_words_per_chapter |-> 10000, sprache |-> Englisch],
      [word_count |-> 1000, chapter_mode |-> TRUE,  max_words_per_chapter |-> 3000,  sprache |-> Englisch],
      [word_count |-> 500,  chapter_mode |-> FALSE, max_words_per_chapter |-> 3000,  sprache |-> Englisch],
      [word_count |-> 4000, chapter_mode |-> FALSE, max_words_per_chapter |-> 3000,  sprache |-> Englisch],
      [word_count |-> 500,  chapter_mode |-> TRUE,  max_words_per_chapter |-> 500,   sprache |-> Englisch],
      [word_count |-> 500,  chapter_mode |-> TRUE,  max_words_per_chapter |-> 1000,  sprache |-> Latein] }

(***************************************************************************)
(* The generation units: what each returns for an outcome of its request.  *)
(* saved: the response reached the temporary file; fault: an exception was *)
(* raised after the request returned.                                      *)
(***************************************************************************)
outline_segment_placeholder ==
    <<"[","O","u","t","l","i","n","e"," ","S","e","g","m","e","n","t"," ",
      "U","n","a","v","a","i","l","a","b","l","e","]">>

\* line 1207
OutlineUnavailable == <<"[">> \o ERROR_GENERATING_OUTLINE_FALLBACK \o <<"]">>

\* lines 1267-1271, 1311-1314
ErrorPlaceholder(chapter_number_) ==
  Value({ (
    LET body == <<"#", "#", " ">> \o chapter_word \o <<" ">> \o NumText(chapter_number)
                \o <<":"," ","[","G","e","n","e","r","a","t","i","o","n"," ","E","r","r","o","r","]">>
                \o ParaSep \o ERROR_CHAPTER_CONTENT
    IN  IF chapter_number = 1 THEN MainTitlePrefix(Titel) \o ParaSep \o body ELSE body
  ) : chapter_number \in {chapter_number_} })

\* _generate_single_chapter_api (lines 1386-1466)
GenerateSingleChapterApi(chapter_number, returned, content_, saved, fault_) ==
  Value({ (
    LET rescued == fault /\ saved /\ Len(Strip(content)) > MIN_CHARS_FOR_RESCUE
    IN  IF returned /\ (~fault \/ rescued)
        THEN CleanTextEnding(FormatChapter(chapter_number, content, Titel))
             \o (IF fault THEN ParaSep \o RESCUED_CHAPTER_NOTICE ELSE <<>>)
        ELSE None
  ) : content \in {content_}, fault \in {fault_} })

\* _generate_epilogue (lines 1613-1729)
GenerateEpilogue(returned_, content_, saved, fault_) ==
  Value({ (
    LET rescued == fault /\ saved /\ Len(Strip(content)) > MIN_CHARS_FOR_RESCUE
        Titled(partial_epilogue_) ==
          Value({ (
            IF StartsWith(partial_epilogue, epilogue_title_correct) THEN partial_epilogue
            ELSE epilogue_title_correct \o ParaSep \o partial_epilogue
          ) : partial_epilogue \in {partial_epilogue_} })
    IN  IF returned /\ ~fault THEN CleanTextEnding(FormatEpilogue(content, Titel))
        ELSE IF returned /\ rescued
             THEN Titled(CleanTextEnding(Strip(content))) \o ParaSep \o RESCUED_EPILOG_NOTICE
             ELSE None
  ) : returned \in {returned_}, content \in {content_}, fault \in {fault_} })

\* _generate_single_story (lines 647-717)
GenerateSingleStory(returned, content_, saved, fault_) ==
  Value({ (
    LET rescued == fault /\ saved /\ Len(content) > MIN_CHARS_FOR_RESCUE
    IN  IF returned /\ (~fault \/ rescued)
        THEN CleanTextEnding(FormatStory(content, Titel))
             \o (IF fault THEN ParaSep \o RESCUED_EPILOG_NOTICE ELSE <<>>)
        ELSE None
  ) : content \in {content_}, fault \in {fault_} })

\* _join_chapters (lines 1597-1610)
JoinChapters(chapter_texts_) ==
  Value({ (
    IF chapter_texts = <<>> THEN None
    ELSE Join([k \in 1..Len(chapter_texts) |-> Strip(chapter_texts[k])], ParaSep)
  ) : chapter_texts \in {chapter_texts_} })

(***************************************************************************)
(* idea_generator.py: the response salvager.  A value of json.loads is a   *)
(* record of its type t ("int", "str", "obj", "arr", "none") and its       *)
(* content v; a dict is a function from keys to values, a list a sequence. *)
(* Texts drawn hold no fractions, signs, exponents, \u escapes or the       *)
(* literals true, false and null, and JsonLoads does not read them.        *)
(***************************************************************************)
JsonNone == [t |-> "none", v |-> 0]

\* int(t) of a run of digits
RECURSIVE DigitsValue(_)
DigitsValue(t_) ==
  Value({ (
    IF t = <<>> THEN 0
    ELSE 10 * DigitsValue(SubSeq(t, 1, Len(t) - 1))
         + (CHOOSE d \in 0..9 : DigitText(d) = t[Len(t)])
  ) : t \in {t_} })

\* the index of the first character at or after p that is no JSON whitespace
SkipWs(s_, p_) == Value({ (p + LeadRun(From(s, p), WS)) : s \in {s_}, p \in {p_} })

\* the result of a reader that fails at index p
JsonFail(p) == [ok |-> FALSE, value |-> JsonNone, pos |-> p]

\* the character that the escape \e stands for; "BS" and "FF": backspace and form feed
Unescape(e_) ==
  Value({ (
    CASE e = "n" -> "\n" [] e = "t" -> "\t" [] e = "r" -> "\r"
      [] e = "b" -> "BS" [] e = "f" -> "FF" [] OTHER -> e
  ) : e \in {e_} })

\* the reader of a JSON string from index p, after its opening quote, on; acc: the
\* characters read so far
RECURSIVE JsonString(_, _, _)
JsonString(s_, p_, acc_) ==
  Value({ (
    IF p >= Len(s) THEN JsonFail(p)
    ELSE IF s[p + 1] = "\""
    THEN [ok |-> TRUE, value |-> [t |-> "str", v |-> acc], pos |-> p + 1]
    ELSE IF s[p + 1] \in {"\n", "\t", "\r"} THEN JsonFail(p)
    ELSE IF s[p + 1] # "\\" THEN JsonString(s, p + 1, Append(acc, s[p + 1]))
    ELSE IF p + 1 < Len(s) /\ s[p + 2] \in {"\"", "\\", "/", "n", "t", "r", "b", "f"}
    THEN JsonString(s, p + 2, Append(acc, Unescape(s[p + 2])))
    ELSE JsonFail(p)
  ) : s \in {s_}, p \in {p_}, acc \in {acc_} })

RECURSIVE JsonValue(_, _)

\* the members of an object from the key expected at index p on; d: the members so far
RECURSIVE JsonMembers(_, _, _)
JsonMembers(s_, p_, d_) ==
  Value({ (
    LET c == SkipWs(s, key.pos)
    IN  IF ~key.ok \/ c >= Len(s) THEN JsonFail(p)
        ELSE IF s[c + 1] # ":" THEN JsonFail(p)
        ELSE Value({ (
               LET q == SkipWs(s, val.pos)
                   members == (key.value.v :> val.value) @@ d
               IN  IF ~val.ok \/ q >= Len(s) THEN JsonFail(p)
                   ELSE IF s[q + 1] = "}"
                   THEN [ok |-> TRUE, value |-> [t |-> "obj", v |-> members], pos |-> q + 1]
                   ELSE IF s[q + 1] = "," THEN JsonMembers(s, SkipWs(s, q + 1), members)
                   ELSE JsonFail(p)
             ) : val \in {JsonValue(s, SkipWs(s, c + 1))} })
  ) : s \in {s_}, p \in {p_}, d \in {d_},
      key \in {IF p_ < Len(s_) /\ s_[p_ + 1] = "\"" THEN JsonString(s_, p_ + 1, <<>>)
               ELSE JsonFail(p_)} })

\* the elements of an array from the value expected at index p on; acc: the elements so far
RECURSIVE JsonElements(_, _, _)
JsonElements(s_, p_, acc_) ==
  Value({ (
    LET q == SkipWs(s, val.pos)
    IN  IF ~val.ok \/ q >= Len(s) THEN JsonFail(p)
        ELSE IF s[q + 1] = "]"
        THEN [ok |-> TRUE, value |-> [t |-> "arr", v |-> Append(acc, val.value)], pos |-> q + 1]
        ELSE IF s[q + 1] = ","
        THEN JsonElements(s, SkipWs(s, q + 1), Append(acc, val.value))
        ELSE JsonFail(p)
  ) : s \in {s_}, p \in {p_}, acc \in {acc_}, val \in {JsonValue(s_, p_)} })

\* the value that starts at index p: [ok, value, pos], pos the index after it
JsonValue(s_, p_) ==
  Value({ (
    LET q == SkipWs(s, p + 1)
        n == IF s[p + 1] = "0" THEN 1 ELSE LeadRun(From(s, p), Digit)
    IN  IF p >= Len(s) THEN JsonFail(p)
        ELSE IF s[p + 1] = "{"
        THEN IF q < Len(s) /\ s[q + 1] = "}"
             THEN [ok |-> TRUE, value |-> [t |-> "obj", v |-> <<>>], pos |-> q + 1]
             ELSE JsonMembers(s, q, <<>>)
        ELSE IF s[p + 1] = "["
        THEN IF q < Len(s) /\ s[q + 1] = "]"
             THEN [ok |-> TRUE, value |-> [t |-> "arr", v |-> <<>>], pos |-> q + 1]
             ELSE JsonElements(s, q, <<>>)
        ELSE IF s[p + 1] = "\"" THEN JsonString(s, p + 1, <<>>)
        ELSE IF s[p + 1] \in Digit
        THEN [ok |-> TRUE, value |-> [t |-> "int", v |-> DigitsValue(Slice(s, p, p + n))],
              pos |-> p + n]
        ELSE JsonFail(p)
  ) : s \in {s_}, p \in {p_} })

\* json.loads(s): [ok, value]; ok is FALSE for a JSONDecodeError
JsonLoads(s_) ==
  Value({ (
    LET Whole(r_) ==
          Value({ (
            [ok |-> r.ok /\ SkipWs(s, r.pos) = Len(s), value |-> r.value]
          ) : r \in {r_} })
    IN  Whole(JsonValue(s, SkipWs(s, 0)))
  ) : s \in {s_} })

\* sys.getrecursionlimit() of the interpreter that runs json.loads (line 275)
RecursionLimit == 1000

\* json.loads(s) raises RecursionError, which is no JSONDecodeError: the scanner enters
\* one more level for every array it opens, and s opens RecursionLimit arrays before
\* anything else.  (The interpreter raises some levels earlier, by the depth of the
\* calls that lead to json.loads; texts nested that deep are not drawn.)
JsonRecursionError(s_) ==
  Value({ (
    Len(s) >= RecursionLimit /\ \A k \in 1..RecursionLimit : s[k] = "["
  ) : s \in {s_} })

\* the fences of a code block; "BT" stands for one backtick
json_fence == <<"BT","BT","BT","j","s","o","n">>

fence_end == <<"BT","BT","BT">>

\* re.search of line 266, DOTALL | IGNORECASE: the array (\[.*?\]) between the json fence and
\* the closing fence, with \s* around it, or the bare array (\[.*?\]),
\* and match.group(1) or match.group(2) (lines 266-270): the text of the array, or None
JsonArrayMatch(response_text_) ==
  Value({ (
    LET Closings(a) == {k \in (a + 1)..(Len(response_text) - 1) : response_text[k + 1] = "]"}
        \* the fenced alternative at index i: the array [a, k] with the fence after it
        FencedEnds(a_) ==
          Value({ (
            IF a < Len(response_text) /\ response_text[a + 1] = "["
            THEN {k \in Closings(a) :
                     OccursAt(response_text, fence_end, SkipWs(response_text, k + 1))}
            ELSE {}
          ) : a \in {a_} })
        Fenced(i_) ==
          Value({ (
            IF OccursAtNoCase(response_text, json_fence, i)
            THEN LET a == SkipWs(response_text, i + Len(json_fence))
                 IN  IF FencedEnds(a) # {}
                     THEN Slice(response_text, a, SetMin(FencedEnds(a)) + 1)
                     ELSE None
            ELSE None
          ) : i \in {i_} })
        Bare(i_) ==
          Value({ (
            IF response_text[i + 1] = "[" /\ Closings(i) # {}
            THEN Slice(response_text, i, SetMin(Closings(i)) + 1)
            ELSE None
          ) : i \in {i_} })
        At(i_) == Value({ (IF Fenced(i) # None THEN Fenced(i) ELSE Bare(i)) : i \in {i_} })
        First(starts_) ==
          Value({ (
            IF starts = {} THEN None ELSE At(SetMin(starts))
          ) : starts \in {starts_} })
    IN  First({i \in 0..(Len(response_text) - 1) : At(i) # None})
  ) : response_text \in {response_text_} })

\* a variant of the body of the scan in which every quote ends the string
ScanStepQuoteEndsString(raw_content_, st_, i_) ==
  Value({ (
    LET char == raw_content[i + 1]
        branch ==
          IF st.in_string
          THEN IF char = "\"" THEN [st EXCEPT !.in_string = FALSE]
               ELSE IF char = "\\" THEN [st EXCEPT !.escaped = ~st.escaped]
               ELSE [st EXCEPT !.escaped = FALSE]
          ELSE IF char = "\"" THEN [st EXCEPT !.in_string = TRUE, !.escaped = FALSE]
               ELSE IF char = "{" THEN [st EXCEPT !.nest_level = @ + 1]
               ELSE IF char = "}"
               THEN [st EXCEPT !.nest_level = @ - 1,
                               !.obj_end = IF st.nest_level - 1 = 0 THEN i ELSE -1]
               ELSE st
    IN  IF branch.obj_end = -1 /\ char # "\\" THEN [branch EXCEPT !.escaped = FALSE]
        ELSE branch
  ) : raw_content \in {raw_content_}, st \in {st_}, i \in {i_} })

\* lines 465-491, the body of the scan: the values of nest_level, in_string, escaped
\* and obj_end after the character at index i
ScanStep(raw_content_, st_, i_) ==
  Value({ (
    LET char == raw_content[i + 1]
        \* lines 467-485
        branch ==
          IF st.in_string
          THEN IF char = "\"" /\ ~st.escaped THEN [st EXCEPT !.in_string = FALSE]
               ELSE IF char = "\\" THEN [st EXCEPT !.escaped = ~st.escaped]
               ELSE [st EXCEPT !.escaped = FALSE]
          ELSE IF char = "\"" THEN [st EXCEPT !.in_string = TRUE, !.escaped = FALSE]
               ELSE IF char = "{" THEN [st EXCEPT !.nest_level = @ + 1]
               ELSE IF char = "}"
               THEN [st EXCEPT !.nest_level = @ - 1,
                               !.obj_end = IF st.nest_level - 1 = 0 THEN i ELSE -1]
               ELSE st
    IN  \* lines 490-491, not reached after the break of line 485
        IF branch.obj_end = -1 /\ char # "\\" THEN [branch EXCEPT !.escaped = FALSE]
        ELSE branch
  ) : raw_content \in {raw_content_}, st \in {st_}, i \in {i_} })

\* line 464: the scan of the indices lo..hi in order, left as soon as obj_end is set
RECURSIVE ScanRange(_, _, _, _)
ScanRange(raw_content_, lo_, hi_, st_) ==
  Value({ (
    IF st.obj_end # -1 \/ lo > hi THEN st
    ELSE IF lo = hi THEN ScanStep(raw_content, st, lo)
    ELSE ScanRange(raw_content, (lo + hi) \div 2 + 1, hi,
                   ScanRange(raw_content, lo, (lo + hi) \div 2, st))
  ) : raw_content \in {raw_content_}, lo \in {lo_}, hi \in {hi_}, st \in {st_} })

\* lines 458-491: the index of the brace that closes the object opened at obj_start, or -1
BraceScan(raw_content_, obj_start_) ==
  Value({ (
    ScanRange(raw_content, obj_start, Len(raw_content) - 1,
              [nest_level |-> 0, in_string |-> FALSE, escaped |-> FALSE, obj_end |-> -1]).obj_end
  ) : raw_content \in {raw_content_}, obj_start \in {obj_start_} })

\* a variant of the loop that stops after the first object
RepairLoopOnce(raw_content, cursor, proposals) ==
    IF proposals # <<>> THEN proposals
    ELSE LET obj_start == PyFind(raw_content, <<"{">>, cursor)
             obj_end == BraceScan(raw_content, obj_start)
             proposal == JsonLoads(Slice(raw_content, obj_start, obj_end + 1))
         IN  IF obj_start # -1 /\ obj_end > obj_start /\ proposal.ok /\ proposal.value.t = "obj"
             THEN <<proposal.value>>
             ELSE <<>>

\* lines 452-521: the loop over the objects of raw_content from cursor on
RECURSIVE RepairLoop(_, _, _)
RepairLoop(raw_content_, cursor_, proposals_) ==
  Value({ (
    LET Parsed(obj_end, proposal_) ==
          Value({ (
            RepairLoop(raw_content, obj_end + 1,
                       IF proposal.ok /\ proposal.value.t = "obj"
                       THEN Append(proposals, proposal.value) ELSE proposals)
          ) : proposal \in {proposal_} })
        Scanned(obj_start, obj_end_) ==
          Value({ (
            IF obj_end > obj_start
            THEN Parsed(obj_end, JsonLoads(Slice(raw_content, obj_start, obj_end + 1)))
            ELSE proposals
          ) : obj_end \in {obj_end_} })
        Found(obj_start_) ==
          Value({ (
            IF obj_start = -1 THEN proposals
            ELSE Scanned(obj_start, BraceScan(raw_content, obj_start))
          ) : obj_start \in {obj_start_} })
    IN  IF cursor < Len(raw_content) THEN Found(PyFind(raw_content, <<"{">>, cursor))
        ELSE proposals
  ) : raw_content \in {raw_content_}, cursor \in {cursor_}, proposals \in {proposals_} })

\* _repair_incomplete_json (lines 426-525)
RepairIncompleteJson(partial_response_) ==
  Value({ (
    LET json_array_start == PyFind(partial_response, <<"[">>, 0)
        json_object_start == PyFind(partial_response, <<"{">>, 0)
        start_index ==
          IF json_array_start # -1
             /\ (json_object_start = -1 \/ json_array_start < json_object_start)
          THEN json_array_start
          ELSE IF json_object_start # -1 THEN json_object_start
          ELSE -1
    IN  IF start_index = -1 THEN <<>>
        ELSE RepairLoop(From(partial_response, start_index), 0, <<>>)
  ) : partial_response \in {partial_response_} })

DEFAULT_TARGET_WORDS_MIN == 5000

DEFAULT_TARGET_WORDS_MAX == 10000

\* line 298
required_keys ==
    << <<"t","i","t","e","l">>,
       <<"p","r","o","m","p","t">>,
       <<"s","e","t","t","i","n","g">>,
       <<"g","e","n","r","e">>,
       <<"w","o","r","t","a","n","z","a","h","l">> >>

\* a variant that takes every value but None for true
TruthyUnlessNone(x_) == x_.t # "none"

\* bool(x) of a value
Truthy(x_) ==
  Value({ (
    CASE x.t = "int" -> x.v # 0
      [] x.t = "str" -> x.v # <<>>
      [] x.t = "arr" -> x.v # <<>>
      [] x.t = "obj" -> DOMAIN x.v # {}
      [] OTHER -> FALSE
  ) : x \in {x_} })

\* lines 310-317: the keys of one item standardised; drawn: the random.randint of line 315
StandardizeProposal(proposal_item_, language_code_, drawn_) ==
  Value({ (
    LET title == <<"t","i","t","l","e">>
        titel == <<"t","i","t","e","l">>
        wordcount == <<"w","o","r","d","c","o","u","n","t">>
        wortanzahl == <<"w","o","r","t","a","n","z","a","h","l">>
        genre == <<"g","e","n","r","e">>
        Get(f, k) == IF k \in DOMAIN f THEN f[k] ELSE JsonNone
        Pop(f, k) == [x \in DOMAIN f \ {k} |-> f[x]]
        d0 == proposal_item.v
        d1 == (titel :> (IF title \in DOMAIN d0 THEN d0[title] ELSE Get(d0, titel)))
                  @@ Pop(d0, title)
        d2 == (wortanzahl :> (IF wordcount \in DOMAIN d1 THEN d1[wordcount]
                              ELSE Get(d1, wortanzahl)))
                  @@ Pop(d1, wordcount)
        d3 == IF d2[wortanzahl].t # "int"
              THEN (wortanzahl :> [t |-> "int", v |-> drawn]) @@ d2
              ELSE d2
        d4 == IF genre \notin DOMAIN d3 \/ ~Truthy(d3[genre])
              THEN (genre :> [t |-> "str",
                              v |-> IF language_code = "en"
                                    THEN <<"[","U","n","k","n","o","w","n","]">>
                                    ELSE <<"[","U","n","b","e","k","a","n","n","t","]">>]) @@ d3
              ELSE d3
    IN  [t |-> "obj", v |-> d4]
  ) : proposal_item \in {proposal_item_}, language_code \in {language_code_},
      drawn \in {drawn_} })

\* lines 266-287: the list parsed from the matched array, or the repaired list
ExtractProposals(response_text_) ==
  Value({ (
    LET Loaded(r_) ==
          Value({ (
            IF r.ok THEN r.value.v ELSE RepairIncompleteJson(response_text)
          ) : r \in {r_} })
        Matched(json_str_) ==
          Value({ (
            IF json_str # None THEN Loaded(JsonLoads(json_str))
            ELSE RepairIncompleteJson(response_text)
          ) : json_str \in {json_str_} })
    IN  Matched(JsonArrayMatch(response_text))
  ) : response_text \in {response_text_} })

\* line 275 raises out of _parse_json_response: the except clause of line 277 takes a
\* JSONDecodeError only
ParseRaises(response_text_) ==
  Value({ (
    json_str # None /\ JsonRecursionError(json_str)
  ) : json_str \in {JsonArrayMatch(response_text_)} })

\* lines 289-331: the standardised items that have every required key with a value;
\* drawn[k]: the number drawn for item k
PostProcess(proposals_, language_code_, drawn_) ==
  Value({ (
    LET Item(k) == StandardizeProposal(proposals[k], language_code, drawn[k])
        Complete(k) ==
          /\ proposals[k].t = "obj"
          /\ \A r \in 1..Len(required_keys) :
                 /\ required_keys[r] \in DOMAIN Item(k).v
                 /\ Truthy(Item(k).v[required_keys[r]])
        RECURSIVE Keep(_)
        Keep(k) == IF k > Len(proposals) THEN <<>>
                   ELSE (IF Complete(k) THEN <<Item(k)>> ELSE <<>>) \o Keep(k + 1)
    IN  Keep(1)
  ) : proposals \in {proposals_}, language_code \in {language_code_}, drawn \in {drawn_} })

(***************************************************************************)
(* The response texts given to _parse_json_response: an array of objects,  *)
(* complete or not, after some prose or a fence and before a fence or a    *)
(* truncated object.                                                       *)
(***************************************************************************)
ARRAY_AB ==
    <<"[","{","\"","a","\"",":","1","}",",","{","\"","b","\"",":","2","}","]">>

ARRAY_RECORDS ==
    <<"[","{","\"","t","i","t","l","e","\"",":","\"","T","\"",",","\"","p","r","o","m","p","t",
    "\"",":","\"","P","\"",",","\"","s","e","t","t","i","n","g","\"",":","\"","S","\"",",",
    "\"","g","e","n","r","e","\"",":","\"","G","\"",",","\"","w","o","r","d","c","o","u",
    "n","t","\"",":","7","}",",","{","\"","t","i","t","e","l","\"",":","\"","U","\"",",",
    "\"","p","r","o","m","p","t","\"",":","\"","Q","\"",",","\"","s","e","t","t","i","n",
    "g","\"",":","\"","R","\"",",","\"","g","e","n","r","e","\"",":","\"","\"",",","\"","w",
    "o","r","t","a","n","z","a","h","l","\"",":","\"","9","\"","}","]">>

ARRAY_BRACES ==
    <<"[","{","\"","a","\"",":","\"","}","{","\"","}",",","{","\"","b","\"",":","{","\"","x",
    "\"",":","2","}","}","]">>

ARRAY_OPEN ==
    <<"[","{","\"","a","\"",":","1","}",",","{","\"","b","\"",":","2","}",",">>

ARRAY_NO_COMMA ==
    <<"[","{","\"","a","\"",":","1","}"," ","{","\"","b","\"",":","2","}","]">>

ARRAY_QUOTE ==
    <<"[","{","\"","a","\"",":","\"","\\","\"","q","\"","}",",","{","\"","b","\"",":","2","}",
    "]">>

ARRAY_MIXED ==
    <<"[","{","\"","t","i","t","l","e","\"",":","\"","T","\"",",","\"","p","r","o","m","p","t","\"",":",
    "\"","\"",",","\"","s","e","t","t","i","n","g","\"",":","\"","S","\"","}",",","{","\"","t","i",
    "t","l","e","\"",":","\"","W","\"",",","\"","t","i","t","e","l","\"",":","\"","V","\"",",","\"",
    "p","r","o","m","p","t","\"",":","\"","Q","\"",",","\"","s","e","t","t","i","n","g","\"",":",
    "\"","R","\"",",","\"","w","o","r","d","c","o","u","n","t","\"",":","8","}",",","{","\"","t",
    "i","t","l","e","\"",":","\"","\"",",","\"","t","i","t","e","l","\"",":","\"","V","\"",",","\"",
    "p","r","o","m","p","t","\"",":","\"","Q","\"",",","\"","s","e","t","t","i","n","g","\"",":",
    "\"","R","\"","}",",","3","]">>

FRAGMENT_C ==
    <<"{","\"","c","\"",":">>

PROSE_IDEAS ==
    <<"I","d","e","a","s",":"," ">>

PROSE_BRACKETS ==
    <<"T","w","o"," ","[","n","e","w","]"," ","i","d","e","a","s",":"," ">>

FENCE_OPEN ==
    <<"BT","BT","BT","j","s","o","n","\n">>

FENCE_CLOSE ==
    <<"\n","BT","BT","BT">>

ResponsePrefixes == {<<>>, PROSE_IDEAS, PROSE_BRACKETS, FENCE_OPEN}

ResponseArrays ==
    {ARRAY_AB, ARRAY_RECORDS, ARRAY_BRACES, ARRAY_OPEN, ARRAY_NO_COMMA, ARRAY_QUOTE,
     ARRAY_MIXED}

ResponseTails == {<<>>, <<" ">> \o FRAGMENT_C, FENCE_CLOSE, FENCE_CLOSE \o <<" ">> \o FRAGMENT_C}

\* a text that opens RecursionLimit arrays, one inside the other
DEEP_ARRAY == [k \in 1..RecursionLimit |-> "["] \o <<"]">>

ResponseTexts ==
    {prefix \o array \o tail :
        prefix \in ResponsePrefixes, array \in ResponseArrays, tail \in ResponseTails}
    \cup {DEEP_ARRAY, PROSE_IDEAS \o DEEP_ARRAY}

\* the texts the request of generate_proposals returns
ProposalResponses ==
    {ARRAY_RECORDS, PROSE_IDEAS \o ARRAY_MIXED, FENCE_OPEN \o ARRAY_RECORDS \o FENCE_CLOSE,
     PROSE_IDEAS, DEEP_ARRAY}

\* response.choices[0].message.content of the request made at position p
Responses(p_) ==
  Value({ (
    CASE p = "OutlineGeneration"  -> {OUTLINE_STRUCTURED, OUTLINE_PROSE}
      [] p = "SegmentGenerate"    -> {CHAPTER_LONG, <<>>}
      [] p = "SegmentSummary"     -> {SUMMARY_TEXT, <<>>}
      [] p = "SegmentRunning"     -> {RUNNING_TEXT, <<>>}
      [] p = "EpilogueGeneration" -> {EPILOGUE_LONG, <<>>}
      [] p = "SingleStory"        -> {STORY_LONG, <<>>}
      [] p = "ProposalsRequest"   -> ProposalResponses
      [] p \in ExecutorPositions  -> {SUMMARY_TEXT, <<>>}
  ) : p \in {p_} })


VARIABLES
    pc,                        \* the position of the run
    cfg,                       \* the arguments of generate
    call,                      \* the request in progress inside retry_api_call
    target_word_count,         \* target_word_count_with_buffer
    num_chapters,
    words_per_chapter_list,
    plot_outline,
    generated_chapters,
    context_for_next_chapter,  \* (combined context, raw end)
    running_plot_summary,
    i,                         \* the loop index of the chapter loop
    chapter_text,
    chapter_context,           \* the values inserted into the chapter prompt
    full_story,
    result,                    \* what generate returns
    prompts,                   \* history: the chapter_context of every chapter so far
    seg_status,                \* history: "ok", "rescued" or "failed" per chapter
    issued,                    \* history: the requests made, as (kind, chapter number)
    response_text,             \* the text given to _parse_json_response
    language_code,
    proposals,                 \* the list before its post-processing
    processed_proposals,       \* what _parse_json_response returns
    resolved_api_key,          \* self.resolved_api_key
    temp_files,                \* the temporary files of the steps, where they are followed
    run_log,                   \* history: how each request of the run ended, where it is kept
    first_run,                 \* history: the log and the result of an earlier run
    raw_content,               \* _repair_incomplete_json: the text from its first bracket on
    cursor                     \* _repair_incomplete_json: where the next object is looked for

vars == <<pc, cfg, call, target_word_count, num_chapters, words_per_chapter_list, plot_outline,
          generated_chapters, context_for_next_chapter, running_plot_summary, i, chapter_text,
          chapter_context, full_story, result, prompts, seg_status, issued, response_text,
          language_code, proposals, processed_proposals, resolved_api_key, temp_files, run_log,
          first_run, raw_content, cursor>>

plan_vars == <<target_word_count, num_chapters, words_per_chapter_list>>

loop_vars == <<generated_chapters, context_for_next_chapter, running_plot_summary, i,
               chapter_text, chapter_context>>

history_vars == <<prompts, seg_status, issued>>

scan_vars == <<raw_content, cursor>>

idea_vars == <<response_text, language_code, proposals, processed_proposals, scan_vars>>

run_vars == <<run_log, first_run>>

\* the credential of a generator that was constructed (line 482)
API_KEY == <<"k", "e", "y">>

\* The temporary files: present holds the steps whose file exists, read the pairs
\* (step, step whose file it opened).  They are followed only where followed is TRUE.
NoTempFiles == [followed |-> FALSE, present |-> {}, read |-> {}]

\* tempfile.mkstemp (lines 653, 1160, 1392, 1622; idea_generator.py line 354)
MkStemp(step) ==
    IF temp_files.followed THEN [temp_files EXCEPT !.present = @ \cup {step}] ELSE temp_files

\* the except branch of a step opens the file of the step (lines 701-703, 1447-1449,
\* 1707-1709; idea_generator.py lines 406-408)
RescueRead(step, fault) ==
    IF temp_files.followed /\ fault THEN [temp_files EXCEPT !.read = @ \cup {<<step, step>>}]
    ELSE temp_files

\* os.remove in the finally block of a step (lines 714-717, 1462-1466, 1725-1729;
\* idea_generator.py lines 417-424)
RemoveTemp(files, step) ==
    IF files.followed THEN [files EXCEPT !.present = @ \ {step}] ELSE files

\* The log of a run, kept only where logging is TRUE: outcomes holds, per request
\* that ended, whether it returned, what it returned and whether the step saved its
\* response and met a fault after it; diagnostics holds what the executor logged for
\* the latest request that failed: its retries and the message of the error it raised.
NoDiagnostics == [retries |-> 0, raised |-> None]

NoLog == [logging |-> FALSE, outcomes |-> <<>>, diagnostics |-> NoDiagnostics]

NoFirstRun == [done |-> FALSE, outcomes |-> <<>>, diagnostics |-> NoDiagnostics, result |-> None]

Logged(step, saved, fault) ==
    IF run_log.logging
    THEN [run_log EXCEPT
             !.outcomes = Append(@, [step |-> step, returned |-> call.state = "returned",
                                     content |-> IF call.state = "returned" THEN call.content
                                                 ELSE <<>>,
                                     saved |-> saved, fault |-> fault]),
             !.diagnostics = IF call.state = "raised"
                             THEN [retries |-> call.retries, raised |-> call.raised]
                             ELSE @]
    ELSE run_log

\* a generator that was constructed and has not run
FreshGenerator ==
    /\ resolved_api_key = API_KEY
    /\ temp_files = NoTempFiles
    /\ run_log = NoLog
    /\ first_run = NoFirstRun

\* no response is being parsed
NoResponse ==
    /\ response_text = <<>>
    /\ language_code = "en"
    /\ proposals = <<>>
    /\ processed_proposals = <<>>
    /\ raw_content = <<>>
    /\ cursor = 0

\* retry_api_call: state is where the executor stands, content the value it
\* returned, retries its counter; invocations counts the calls of call_function,
\* sleeps those of time.sleep, warnings the retry warnings logged; errors holds
\* str(e) of every failed invocation in order, raised the error raised to the caller
NoCall == [state |-> "none", content |-> <<>>, retries |-> 0, invocations |-> 0,
           sleeps |-> 0, warnings |-> 0, errors |-> <<>>, raised |-> None]

\* retries = 0 (line 546) and the first invocation of call_function (line 550)
Pending == [NoCall EXCEPT !.state = "pending", !.invocations = 1]

\* a variant in which a raised request is never taken up by its caller
ResolvedWhenReturned == call.state = "returned"

\* retry_api_call has returned to its caller or raised to it
Resolved == call.state \in {"returned", "raised"}

NoContext == [kapitel_nummer |-> 0, kapitel_anzahl |-> 0, plot_outline_segment |-> <<>>,
              zusammenfassung_vorher |-> <<>>, running_plot_summary |-> <<>>,
              kapitel_wortanzahl |-> 0, prev_kapitel_nummer |-> 0]

Init ==
    /\ pc = "Start"
    /\ cfg \in Configs
    /\ call = NoCall
    /\ target_word_count = 0
    /\ num_chapters = 0
    /\ words_per_chapter_list = <<>>
    /\ plot_outline = None
    /\ generated_chapters = <<>>
    /\ context_for_next_chapter = <<<<>>, <<>>>>
    /\ running_plot_summary = <<>>
    /\ i = 0
    /\ chapter_text = None
    /\ chapter_context = NoContext
    /\ full_story = None
    /\ result = None
    /\ prompts = <<>>
    /\ seg_status = <<>>
    /\ issued = {}
    /\ FreshGenerator
    /\ NoResponse

(***************************************************************************)
(* generate (lines 1733-1821): the language check, the buffered target and *)
(* the choice between chapter mode and one request for the whole story.    *)
(***************************************************************************)
Generate ==
    /\ pc = "Start"
    /\ \E target \in {TargetWordCount(cfg.word_count, cfg.chapter_mode)} :
           IF GetLangConfig(cfg.sprache) = None
           THEN pc' = "Done" /\ result' = None
                /\ UNCHANGED <<call, target_word_count, issued>>
           ELSE IF UseChapterMode(target, cfg.chapter_mode, cfg.max_words_per_chapter)
           THEN pc' = "Planning" /\ target_word_count' = target
                /\ UNCHANGED <<call, result, issued>>
           ELSE IF ExceedsSingleCall(target)
           THEN pc' = "Done" /\ result' = None /\ target_word_count' = target
                /\ UNCHANGED <<call, issued>>
           ELSE pc' = "SingleStory" /\ target_word_count' = target /\ call' = Pending
                /\ issued' = issued \cup {<<"story", 0>>}
                /\ UNCHANGED result
    /\ UNCHANGED <<idea_vars, cfg, num_chapters, words_per_chapter_list, plot_outline, loop_vars,
                   full_story, prompts, seg_status>>
    /\ temp_files' = IF pc' = "SingleStory" THEN MkStemp(<<"story", 0>>) ELSE temp_files
    /\ UNCHANGED <<resolved_api_key, run_vars>>

(***************************************************************************)
(* retry_api_call (lines 544-581).                                         *)
(***************************************************************************)
\* line 550: the request returns
CallReturns ==
    /\ call.state = "pending"
    /\ \E content \in Responses(pc) :
          call' = [call EXCEPT !.state = "returned", !.content = content]
    /\ UNCHANGED <<idea_vars, pc, cfg, plan_vars, plot_outline, loop_vars, full_story, result, history_vars>>
    /\ UNCHANGED <<resolved_api_key, temp_files, run_vars>>

\* a variant that retries after any error
CallRetriedAnyError ==
    /\ call.state = "pending"
    /\ \E e \in ErrorsAt(pc) :
          /\ call.retries < MAX_RETRIES
          /\ call' = [call EXCEPT !.errors = Append(@, e),
                                   !.retries = @ + 1,
                                   !.warnings = @ + 1,
                                   !.sleeps = @ + 1,
                                   !.invocations = @ + 1]
    /\ UNCHANGED <<idea_vars, pc, cfg, plan_vars, plot_outline, loop_vars, full_story, result, history_vars>>
    /\ UNCHANGED <<resolved_api_key, temp_files, run_vars>>

\* a variant that goes straight to the next invocation, without sleeping
CallRetriedWithoutSleep ==
    /\ call.state = "pending"
    /\ \E e \in ErrorsAt(pc) :
          /\ IsRetryableAt(pc, e) /\ call.retries < MAX_RETRIES
          /\ call' = [call EXCEPT !.errors = Append(@, e),
                                   !.retries = @ + 1,
                                   !.warnings = @ + 1,
                                   !.invocations = @ + 1]
    /\ UNCHANGED <<idea_vars, pc, cfg, plan_vars, plot_outline, loop_vars, full_story, result, history_vars>>
    /\ UNCHANGED <<resolved_api_key, temp_files, run_vars>>

\* lines 551-575 and 548-550: a retryable error with retries left; the warning is
\* logged, the executor sleeps and calls call_function again
CallRetried ==
    /\ call.state = "pending"
    /\ \E e \in ErrorsAt(pc) :
          /\ IsRetryableAt(pc, e) /\ call.retries < MAX_RETRIES
          /\ call' = [call EXCEPT !.errors = Append(@, e),
                                   !.retries = @ + 1,
                                   !.warnings = @ + 1,
                                   !.sleeps = @ + 1,
                                   !.invocations = @ + 1]
    /\ UNCHANGED <<idea_vars, pc, cfg, plan_vars, plot_outline, loop_vars, full_story, result, history_vars>>
    /\ UNCHANGED <<resolved_api_key, temp_files, run_vars>>

\* a variant that raises the error of the first invocation
CallRaisesFirstError ==
    /\ call.state = "pending"
    /\ \E e \in ErrorsAt(pc) :
          /\ ~(IsRetryableAt(pc, e) /\ call.retries < MAX_RETRIES)
          /\ call' = [call EXCEPT !.state = "raised", !.errors = Append(@, e),
                                   !.raised = Append(call.errors, e)[1]]
    /\ UNCHANGED <<idea_vars, pc, cfg, plan_vars, plot_outline, loop_vars, full_story, result, history_vars>>
    /\ UNCHANGED <<resolved_api_key, temp_files, run_vars>>

\* lines 551-566 and 576-579: the error is raised to the caller
CallRaises ==
    /\ call.state = "pending"
    /\ \E e \in ErrorsAt(pc) :
          /\ ~(IsRetryableAt(pc, e) /\ call.retries < MAX_RETRIES)
          /\ call' = [call EXCEPT !.state = "raised", !.errors = Append(@, e), !.raised = e]
    /\ UNCHANGED <<idea_vars, pc, cfg, plan_vars, plot_outline, loop_vars, full_story, result, history_vars>>
    /\ UNCHANGED <<resolved_api_key, temp_files, run_vars>>

(***************************************************************************)
(* _generate_single_story (lines 647-717) and the end of generate.         *)
(***************************************************************************)
SingleStoryDone ==
    /\ pc = "SingleStory" /\ Resolved
    /\ \E saved, fault \in BOOLEAN :
          /\ call.state = "raised" => (fault /\ ~saved)
          /\ result' = GenerateSingleStory(call.state = "returned", call.content, saved, fault)
          /\ temp_files' = RemoveTemp(RescueRead(<<"story", 0>>, fault), <<"story", 0>>)
          /\ run_log' = Logged(<<"story", 0>>, saved, fault)
    /\ pc' = "Done"
    /\ call' = NoCall
    /\ UNCHANGED <<idea_vars, cfg, plan_vars, plot_outline, loop_vars, full_story, history_vars>>
    /\ UNCHANGED <<resolved_api_key, first_run>>

(***************************************************************************)
(* _generate_story_with_chapters (lines 1137-1383).                        *)
(***************************************************************************)
\* lines 1147-1177: the chapter structure, then the outline request
Planning ==
    /\ pc = "Planning"
    /\ \E structure \in {OptimizeChapterStructure(target_word_count,
                                                     cfg.max_words_per_chapter)} :
           /\ num_chapters' = structure.num_chapters
           /\ words_per_chapter_list' = structure.words_per_chapter
    /\ pc' = "OutlineGeneration"
    /\ call' = Pending
    /\ issued' = issued \cup {<<"outline", 0>>}
    /\ UNCHANGED <<idea_vars, cfg, target_word_count, plot_outline, loop_vars, full_story, result,
                   prompts, seg_status>>
    /\ temp_files' = MkStemp(<<"outline", 0>>)
    /\ UNCHANGED <<resolved_api_key, run_vars>>

\* lines 1178-1221: the outline or its fallback, and the initial context of the loop
OutlineDone ==
    /\ pc = "OutlineGeneration" /\ Resolved
    /\ plot_outline' = IF call.state = "returned" THEN call.content ELSE OutlineUnavailable
    /\ \E outline_saved \in BOOLEAN :
          /\ call.state = "raised" => ~outline_saved
          /\ (~temp_files.followed /\ call.state = "returned") => outline_saved
          /\ temp_files' = IF outline_saved THEN RemoveTemp(temp_files, <<"outline", 0>>)
                           ELSE temp_files
          /\ run_log' = Logged(<<"outline", 0>>, outline_saved, FALSE)
    /\ generated_chapters' = <<>>
    /\ context_for_next_chapter' = <<SUMMARY_FIRST_CHAPTER, <<>>>>
    /\ running_plot_summary' = RUNNING_SUMMARY_PLACEHOLDER \o RUNNING_SUMMARY_INITIAL
    /\ i' = 0
    /\ pc' = "SegmentPrepare"
    /\ call' = NoCall
    /\ UNCHANGED <<idea_vars, cfg, plan_vars, chapter_text, chapter_context, full_story, result,
                   history_vars>>
    /\ UNCHANGED <<resolved_api_key, first_run>>

\* a variant that builds every prompt with the context of the first chapter
SegmentPrepareFirstContext ==
    /\ pc = "SegmentPrepare" /\ i < num_chapters
    /\ \E chapter_number \in {i + 1} :
       \E segment \in {ExtractOutlineSegment(plot_outline, chapter_number)} :
           chapter_context' =
               [kapitel_nummer |-> chapter_number, kapitel_anzahl |-> num_chapters,
                plot_outline_segment |->
                    IF segment = None THEN outline_segment_placeholder ELSE segment,
                zusammenfassung_vorher |-> SUMMARY_FIRST_CHAPTER,
                running_plot_summary |-> RUNNING_SUMMARY_PLACEHOLDER \o RUNNING_SUMMARY_INITIAL,
                kapitel_wortanzahl |-> words_per_chapter_list[chapter_number],
                prev_kapitel_nummer |-> chapter_number - 1]
    /\ chapter_text' = None
    /\ prompts' = Append(prompts, chapter_context')
    /\ pc' = "SegmentGenerate"
    /\ call' = Pending
    /\ issued' = issued \cup {<<"chapter", i + 1>>}
    /\ UNCHANGED <<idea_vars, cfg, plan_vars, plot_outline, generated_chapters, context_for_next_chapter,
                   running_plot_summary, i, full_story, result, seg_status>>
    /\ temp_files' = MkStemp(<<"chapter", i + 1>>)
    /\ UNCHANGED <<resolved_api_key, run_vars>>

\* a variant that leaves out the chapter whose outline segment is missing
SegmentPrepareSkipsMissing ==
    /\ pc = "SegmentPrepare" /\ i < num_chapters
    /\ \E chapter_number \in {i + 1} :
       \E segment \in {ExtractOutlineSegment(plot_outline, chapter_number)} :
           /\ chapter_context' =
                  [kapitel_nummer |-> chapter_number, kapitel_anzahl |-> num_chapters,
                   plot_outline_segment |->
                       IF segment = None THEN outline_segment_placeholder ELSE segment,
                   zusammenfassung_vorher |-> context_for_next_chapter[1],
                   running_plot_summary |-> running_plot_summary,
                   kapitel_wortanzahl |-> words_per_chapter_list[chapter_number],
                   prev_kapitel_nummer |-> chapter_number - 1]
           /\ IF segment = None
              THEN /\ chapter_text' = ErrorPlaceholder(chapter_number)
                   /\ seg_status' = Append(seg_status, "failed")
                   /\ pc' = "SegmentSummary"
                   /\ UNCHANGED <<call, issued>>
              ELSE /\ chapter_text' = None
                   /\ pc' = "SegmentGenerate"
                   /\ call' = Pending
                   /\ issued' = issued \cup {<<"chapter", i + 1>>}
                   /\ UNCHANGED seg_status
    /\ prompts' = Append(prompts, chapter_context')
    /\ UNCHANGED <<idea_vars, cfg, plan_vars, plot_outline, generated_chapters, context_for_next_chapter,
                   running_plot_summary, i, full_story, result>>
    /\ temp_files' = IF pc' = "SegmentGenerate" THEN MkStemp(<<"chapter", i + 1>>) ELSE temp_files
    /\ UNCHANGED <<resolved_api_key, run_vars>>

\* lines 1223-1263, 1396-1413: the outline segment, the prompt values, the chapter request
SegmentPrepare ==
    /\ pc = "SegmentPrepare" /\ i < num_chapters
    /\ \E chapter_number \in {i + 1} :
       \E segment \in {ExtractOutlineSegment(plot_outline, chapter_number)} :
           chapter_context' =
               [kapitel_nummer |-> chapter_number, kapitel_anzahl |-> num_chapters,
                plot_outline_segment |->
                    IF segment = None THEN outline_segment_placeholder ELSE segment,
                zusammenfassung_vorher |-> context_for_next_chapter[1],
                running_plot_summary |-> running_plot_summary,
                kapitel_wortanzahl |-> words_per_chapter_list[chapter_number],
                prev_kapitel_nummer |-> chapter_number - 1]
    /\ chapter_text' = None
    /\ prompts' = Append(prompts, chapter_context')
    /\ pc' = "SegmentGenerate"
    /\ call' = Pending
    /\ issued' = issued \cup {<<"chapter", i + 1>>}
    /\ UNCHANGED <<idea_vars, cfg, plan_vars, plot_outline, generated_chapters, context_for_next_chapter,
                   running_plot_summary, i, full_story, result, seg_status>>
    /\ temp_files' = MkStemp(<<"chapter", i + 1>>)
    /\ UNCHANGED <<resolved_api_key, run_vars>>

\* a variant whose temporary file holds a text before the request has returned
ChapterDoneRescuesRaised ==
    /\ pc = "SegmentGenerate" /\ Resolved
    /\ \E saved, fault \in BOOLEAN :
          /\ call.state = "raised" => fault
          /\ \E text \in {GenerateSingleChapterApi(i + 1, TRUE,
                                                   IF call.state = "raised" THEN CHAPTER_LONG
                                                   ELSE call.content,
                                                   saved, fault)} :
                 /\ chapter_text' = IF text = None THEN ErrorPlaceholder(i + 1) ELSE text
                 /\ seg_status' = Append(seg_status,
                                         IF text = None THEN "failed"
                                         ELSE IF fault THEN "rescued" ELSE "ok")
          /\ temp_files' = RemoveTemp(RescueRead(<<"chapter", i + 1>>, fault), <<"chapter", i + 1>>)
          /\ run_log' = Logged(<<"chapter", i + 1>>, saved, fault)
    /\ pc' = "SegmentSummary"
    /\ call' = NoCall
    /\ UNCHANGED <<idea_vars, cfg, plan_vars, plot_outline, generated_chapters, context_for_next_chapter,
                   running_plot_summary, i, chapter_context, full_story, result, prompts, issued>>
    /\ UNCHANGED <<resolved_api_key, first_run>>

\* a variant that puts the message of the error into the placeholder of the chapter
ChapterDoneEmbedsError ==
    /\ pc = "SegmentGenerate" /\ Resolved
    /\ \E saved, fault \in BOOLEAN :
          /\ call.state = "raised" => (fault /\ ~saved)
          /\ \E text \in {GenerateSingleChapterApi(i + 1, call.state = "returned",
                                                   call.content, saved, fault)} :
                 /\ chapter_text' = IF text = None
                                    THEN ErrorPlaceholder(i + 1) \o ParaSep
                                             \o (IF call.raised = None THEN <<>> ELSE call.raised)
                                    ELSE text
                 /\ seg_status' = Append(seg_status,
                                         IF text = None THEN "failed"
                                         ELSE IF fault THEN "rescued" ELSE "ok")
          /\ temp_files' = RemoveTemp(RescueRead(<<"chapter", i + 1>>, fault), <<"chapter", i + 1>>)
          /\ run_log' = Logged(<<"chapter", i + 1>>, saved, fault)
    /\ pc' = "SegmentSummary"
    /\ call' = NoCall
    /\ UNCHANGED <<idea_vars, cfg, plan_vars, plot_outline, generated_chapters, context_for_next_chapter,
                   running_plot_summary, i, chapter_context, full_story, result, prompts, issued>>
    /\ UNCHANGED <<resolved_api_key, first_run>>

\* lines 1261-1275: the chapter, or the error placeholder when the unit returned None
ChapterDone ==
    /\ pc = "SegmentGenerate" /\ Resolved
    /\ \E saved, fault \in BOOLEAN :
          /\ call.state = "raised" => (fault /\ ~saved)
          /\ \E text \in {GenerateSingleChapterApi(i + 1, call.state = "returned",
                                                   call.content, saved, fault)} :
                 /\ chapter_text' = IF text = None THEN ErrorPlaceholder(i + 1) ELSE text
                 /\ seg_status' = Append(seg_status,
                                         IF text = None THEN "failed"
                                         ELSE IF fault THEN "rescued" ELSE "ok")
          /\ temp_files' = RemoveTemp(RescueRead(<<"chapter", i + 1>>, fault), <<"chapter", i + 1>>)
          /\ run_log' = Logged(<<"chapter", i + 1>>, saved, fault)
    /\ pc' = "SegmentSummary"
    /\ call' = NoCall
    /\ UNCHANGED <<idea_vars, cfg, plan_vars, plot_outline, generated_chapters, context_for_next_chapter,
                   running_plot_summary, i, chapter_context, full_story, result, prompts, issued>>
    /\ UNCHANGED <<resolved_api_key, first_run>>

\* variants that look for the marker at the start of the chapter only
is_error_content_at_start == StartsWith(chapter_text, ERROR_CHAPTER_CONTENT)

is_rescue_notice_at_start == StartsWith(chapter_text, RESCUED_CHAPTER_NOTICE)

\* lines 1278-1279
is_error_content == Contains(chapter_text, ERROR_CHAPTER_CONTENT)

is_rescue_notice == Contains(chapter_text, RESCUED_CHAPTER_NOTICE)

\* lines 1281-1286, 977-1034: the context for the next chapter, up to the summary request
SummaryStep ==
    /\ pc = "SegmentSummary" /\ call.state = "none"
    /\ IF is_error_content \/ is_rescue_notice
       THEN /\ context_for_next_chapter' = <<FallbackSummaryPart, <<>>>>
            /\ pc' = "SegmentRunning"
            /\ UNCHANGED <<call, issued>>
       ELSE IF ~SummaryCallNeeded(chapter_text)
       THEN /\ context_for_next_chapter' = SummaryFallback(chapter_text)
            /\ pc' = "SegmentRunning"
            /\ UNCHANGED <<call, issued>>
       ELSE /\ call' = Pending
            /\ issued' = issued \cup {<<"summary", i + 1>>}
            /\ UNCHANGED <<pc, context_for_next_chapter>>
    /\ UNCHANGED <<idea_vars, cfg, plan_vars, plot_outline, generated_chapters, running_plot_summary, i,
                   chapter_text, chapter_context, full_story, result, prompts, seg_status>>
    /\ UNCHANGED <<resolved_api_key, temp_files, run_vars>>

\* lines 1035-1064: the summary request returned or raised
SummaryDone ==
    /\ pc = "SegmentSummary" /\ Resolved
    /\ context_for_next_chapter' =
           IF call.state = "returned" THEN SummaryReturned(chapter_text, call.content)
           ELSE SummaryFallback(chapter_text)
    /\ pc' = "SegmentRunning"
    /\ call' = NoCall
    /\ UNCHANGED <<idea_vars, cfg, plan_vars, plot_outline, generated_chapters, running_plot_summary, i,
                   chapter_text, chapter_context, full_story, result, history_vars>>
    /\ run_log' = Logged(<<"summary", i + 1>>, FALSE, FALSE)
    /\ UNCHANGED <<resolved_api_key, temp_files, first_run>>

\* lines 1291-1295, 1072-1115: the running summary, up to the update request
RunningStep ==
    /\ pc = "SegmentRunning" /\ call.state = "none"
    /\ IF is_error_content \/ is_rescue_notice \/ ~RunningCallNeeded(chapter_text)
       THEN pc' = "SegmentAppend" /\ UNCHANGED <<call, issued>>
       ELSE /\ call' = Pending
            /\ issued' = issued \cup {<<"running", i + 1>>}
            /\ UNCHANGED pc
    /\ UNCHANGED <<idea_vars, cfg, plan_vars, plot_outline, loop_vars, full_story, result, prompts,
                   seg_status>>
    /\ UNCHANGED <<resolved_api_key, temp_files, run_vars>>

\* lines 1116-1134: the update request returned or raised
RunningDone ==
    /\ pc = "SegmentRunning" /\ Resolved
    /\ running_plot_summary' =
           IF call.state = "returned" THEN RunningReturned(running_plot_summary, call.content)
           ELSE running_plot_summary
    /\ pc' = "SegmentAppend"
    /\ call' = NoCall
    /\ UNCHANGED <<idea_vars, cfg, plan_vars, plot_outline, generated_chapters, context_for_next_chapter,
                   i, chapter_text, chapter_context, full_story, result, history_vars>>
    /\ run_log' = Logged(<<"running", i + 1>>, FALSE, FALSE)
    /\ UNCHANGED <<resolved_api_key, temp_files, first_run>>

\* a variant in which a failed chapter ends the loop
SegmentAppendUntilFailure ==
    /\ pc = "SegmentAppend"
    /\ generated_chapters' = Append(generated_chapters, chapter_text)
    /\ i' = i + 1
    /\ pc' = IF i + 1 < num_chapters /\ ~is_error_content THEN "SegmentPrepare"
             ELSE "EpilogueDecision"
    /\ UNCHANGED <<idea_vars, cfg, call, plan_vars, plot_outline, context_for_next_chapter,
                   running_plot_summary, chapter_text, chapter_context, full_story, result,
                   history_vars>>
    /\ UNCHANGED <<resolved_api_key, temp_files, run_vars>>

\* line 1300 and the loop header: the chapter is appended, the loop goes on or ends
SegmentAppend ==
    /\ pc = "SegmentAppend"
    /\ generated_chapters' = Append(generated_chapters, chapter_text)
    /\ i' = i + 1
    /\ pc' = IF i + 1 < num_chapters THEN "SegmentPrepare" ELSE "EpilogueDecision"
    /\ UNCHANGED <<idea_vars, cfg, call, plan_vars, plot_outline, context_for_next_chapter,
                   running_plot_summary, chapter_text, chapter_context, full_story, result,
                   history_vars>>
    /\ UNCHANGED <<resolved_api_key, temp_files, run_vars>>

\* a variant that also refuses the epilogue after a rescued last chapter
should_generate_epilogue_after_complete(last_chapter_text) ==
    /\ ~Contains(last_chapter_text, ERROR_CHAPTER_CONTENT)
    /\ ~Contains(last_chapter_text, RESCUED_CHAPTER_NOTICE)

\* lines 1331-1337: the epilogue is wanted unless the last chapter holds the error body
should_generate_epilogue(last_chapter_text) ==
    ~Contains(last_chapter_text, ERROR_CHAPTER_CONTENT)

\* lines 1320-1371: the chapters are joined; the epilogue is requested when it is wanted
EpilogueDecision ==
    /\ pc = "EpilogueDecision"
    /\ \E joined \in {JoinChapters(generated_chapters)} :
           IF joined = None \/ joined = <<>>
           THEN /\ pc' = "Done" /\ result' = None
                /\ UNCHANGED <<call, full_story, issued>>
           ELSE IF should_generate_epilogue(generated_chapters[Len(generated_chapters)])
           THEN /\ pc' = "EpilogueGeneration"
                /\ full_story' = joined
                /\ call' = Pending
                /\ issued' = issued \cup {<<"epilogue", 0>>}
                /\ UNCHANGED result
           ELSE /\ pc' = "Assembly"
                /\ full_story' = joined \o ParaSep \o RESCUED_EPILOG_NOTICE
                /\ UNCHANGED <<call, result, issued>>
    /\ UNCHANGED <<idea_vars, cfg, plan_vars, plot_outline, loop_vars, prompts, seg_status>>
    /\ temp_files' = IF pc' = "EpilogueGeneration" THEN MkStemp(<<"epilogue", 0>>) ELSE temp_files
    /\ UNCHANGED <<resolved_api_key, run_vars>>

\* lines 1352-1367: the epilogue is appended, or the notice when there is none
EpilogueDone ==
    /\ pc = "EpilogueGeneration" /\ Resolved
    /\ \E saved, fault \in BOOLEAN :
          /\ call.state = "raised" => (fault /\ ~saved)
          /\ \E epilogue_text \in {GenerateEpilogue(call.state = "returned", call.content,
                                                     saved, fault)} :
                 full_story' = IF epilogue_text # None /\ epilogue_text # <<>>
                               THEN Strip(full_story) \o ParaSep \o Strip(epilogue_text)
                               ELSE full_story \o ParaSep \o RESCUED_EPILOG_NOTICE
          /\ temp_files' = RemoveTemp(RescueRead(<<"epilogue", 0>>, fault), <<"epilogue", 0>>)
          /\ run_log' = Logged(<<"epilogue", 0>>, saved, fault)
    /\ pc' = "Assembly"
    /\ call' = NoCall
    /\ UNCHANGED <<idea_vars, cfg, plan_vars, plot_outline, loop_vars, result, history_vars>>
    /\ UNCHANGED <<resolved_api_key, first_run>>

\* lines 1379-1383 and 1805-1813: the final clean-up; generate returns the story
Assembly ==
    /\ pc = "Assembly"
    /\ result' = CleanTextEnding(Strip(full_story))
    /\ pc' = "Done"
    /\ UNCHANGED <<idea_vars, cfg, call, plan_vars, plot_outline, loop_vars, full_story, history_vars>>
    /\ UNCHANGED <<resolved_api_key, temp_files, run_vars>>

Next ==
    \/ Generate
    \/ CallReturns
    \/ CallRetried
    \/ CallRaises
    \/ SingleStoryDone
    \/ Planning
    \/ OutlineDone
    \/ SegmentPrepare
    \/ ChapterDone
    \/ SummaryStep
    \/ SummaryDone
    \/ RunningStep
    \/ RunningDone
    \/ SegmentAppend
    \/ EpilogueDecision
    \/ EpilogueDone
    \/ Assembly

Spec == Init /\ [][Next]_vars

\* the longest plan, in chapters, of the runs checked for termination
MaxFairChapters == 2

\* the requests that are not written in chapters, or in at most MaxFairChapters
FairInit ==
    /\ Init
    /\ \E target \in {TargetWordCount(cfg.word_count, cfg.chapter_mode)} :
           UseChapterMode(target, cfg.chapter_mode, cfg.max_words_per_chapter)
               => OptimizeChapterStructure(target, cfg.max_words_per_chapter).num_chapters
                      <= MaxFairChapters

\* every request returns or raises, and the program, which runs on one thread without
\* waiting for anything but its requests, takes its next step
FairSpec == FairInit /\ [][Next]_vars /\ WF_vars(Next)

(***************************************************************************)
(* The planner on its own: _generate_story_with_chapters entered with the  *)
(* word count target_word_count and the limit cfg.max_words_per_chapter,   *)
(* up to its outline request; and generate entered with the request of the *)
(* end-to-end scenario.                                                    *)
(***************************************************************************)
\* the word counts 1..MaxPlanWords, and the multiples of 250 up to
\* 250 * MaxPlanSteps with their neighbours
MaxPlanWords == 420

MaxPlanSteps == 60

\* the limits 1..MaxPlanLimit, and the multiples of 250
MaxPlanLimit == 120

PlanWords == (1..MaxPlanWords) \cup {250 * k + d : k \in 1..MaxPlanSteps, d \in {-1, 0, 1}}

PlanLimits == (1..MaxPlanLimit) \cup {250 * k : k \in 1..MaxPlanSteps}

ScenarioConfigs ==
    { [word_count |-> 12000, chapter_mode |-> TRUE, max_words_per_chapter |-> 3000,
       sprache |-> Englisch] }

PlannerInit ==
    /\ \/ /\ pc = "Planning"
          /\ target_word_count \in PlanWords
          /\ cfg \in [word_count : {500}, chapter_mode : {TRUE},
                      max_words_per_chapter : PlanLimits, sprache : {Englisch}]
       \/ /\ pc = "Start"
          /\ target_word_count = 0
          /\ cfg \in ScenarioConfigs
    /\ call = NoCall
    /\ num_chapters = 0
    /\ words_per_chapter_list = <<>>
    /\ plot_outline = None
    /\ generated_chapters = <<>>
    /\ context_for_next_chapter = <<<<>>, <<>>>>
    /\ running_plot_summary = <<>>
    /\ i = 0
    /\ chapter_text = None
    /\ chapter_context = NoContext
    /\ full_story = None
    /\ result = None
    /\ prompts = <<>>
    /\ seg_status = <<>>
    /\ issued = {}
    /\ FreshGenerator
    /\ NoResponse

PlannerNext ==
    \/ Generate
    \/ Planning

PlannerSpec == PlannerInit /\ [][PlannerNext]_vars

(***************************************************************************)
(* The retry executors on their own: one call of retry_api_call of the     *)
(* story generator (position Executor) or of the idea generator (position  *)
(* IdeaExecutor), whose call_function returns or raises at every           *)
(* invocation as the environment decides.                                  *)
(***************************************************************************)
RetryInit ==
    /\ pc \in ExecutorPositions
    /\ cfg = [word_count |-> 500, chapter_mode |-> FALSE, max_words_per_chapter |-> 3000,
              sprache |-> Englisch]
    /\ call = Pending
    /\ target_word_count = 0
    /\ num_chapters = 0
    /\ words_per_chapter_list = <<>>
    /\ plot_outline = None
    /\ generated_chapters = <<>>
    /\ context_for_next_chapter = <<<<>>, <<>>>>
    /\ running_plot_summary = <<>>
    /\ i = 0
    /\ chapter_text = None
    /\ chapter_context = NoContext
    /\ full_story = None
    /\ result = None
    /\ prompts = <<>>
    /\ seg_status = <<>>
    /\ issued = {}
    /\ FreshGenerator
    /\ NoResponse

RetryNext ==
    \/ CallReturns
    \/ CallRetried
    \/ CallRaises

RetrySpec == RetryInit /\ [][RetryNext]_vars

(***************************************************************************)
(* The chapter loop on its own: a three-chapter run in which the outline   *)
(* request of lines 1178-1207 has ended, with one of the outlines or with  *)
(* an error.                                                                *)
(***************************************************************************)
OutlineInit ==
    /\ pc = "OutlineGeneration"
    /\ cfg = [word_count |-> 500, chapter_mode |-> TRUE, max_words_per_chapter |-> 500,
              sprache |-> Englisch]
    /\ target_word_count = TargetWordCount(cfg.word_count, cfg.chapter_mode)
    /\ \E structure \in {OptimizeChapterStructure(TargetWordCount(500, TRUE), 500)} :
           /\ num_chapters = structure.num_chapters
           /\ words_per_chapter_list = structure.words_per_chapter
    /\ call \in {[Pending EXCEPT !.state = "returned", !.content = outline] :
                     outline \in OutlineSamples}
                \cup {[Pending EXCEPT !.state = "raised", !.errors = <<ERROR_FATAL>>,
                                      !.raised = ERROR_FATAL]}
    /\ plot_outline = None
    /\ generated_chapters = <<>>
    /\ context_for_next_chapter = <<<<>>, <<>>>>
    /\ running_plot_summary = <<>>
    /\ i = 0
    /\ chapter_text = None
    /\ chapter_context = NoContext
    /\ full_story = None
    /\ result = None
    /\ prompts = <<>>
    /\ seg_status = <<>>
    /\ issued = {<<"outline", 0>>}
    /\ FreshGenerator
    /\ NoResponse

OutlineNext ==
    \/ OutlineDone
    \/ SegmentPrepare
    \/ CallReturns
    \/ CallRaises
    \/ ChapterDone
    \/ SummaryStep
    \/ SummaryDone
    \/ RunningStep
    \/ RunningDone
    \/ SegmentAppend

OutlineSpec == OutlineInit /\ [][OutlineNext]_vars

(***************************************************************************)
(* The chapter loop with its own handler (lines 1302-1317): an exception   *)
(* that is not caught inside a step ends the iteration.  Such an exception *)
(* leaves _generate_single_chapter_api before it returned, or comes from   *)
(* one of the progress updates of lines 1275, 1288 and 1297, between two   *)
(* requests.  The handler appends a placeholder only when chapter_text is  *)
(* still None; then the loop goes on with the next chapter.                *)
(***************************************************************************)
LoopFault ==
    /\ \/ pc = "SegmentGenerate" /\ Resolved
       \/ pc \in {"SegmentSummary", "SegmentRunning", "SegmentAppend"} /\ call.state = "none"
    /\ IF chapter_text = None
       THEN /\ chapter_text' = ErrorPlaceholder(i + 1)
            /\ generated_chapters' = Append(generated_chapters, chapter_text')
            /\ seg_status' = Append(seg_status, "failed")
       ELSE UNCHANGED <<chapter_text, generated_chapters, seg_status>>
    /\ temp_files' = RemoveTemp(temp_files, <<"chapter", i + 1>>)
    /\ i' = i + 1
    /\ pc' = IF i + 1 < num_chapters THEN "SegmentPrepare" ELSE "EpilogueDecision"
    /\ call' = NoCall
    /\ UNCHANGED <<idea_vars, cfg, plan_vars, plot_outline, context_for_next_chapter,
                   running_plot_summary, chapter_context, full_story, result, prompts, issued>>
    /\ UNCHANGED <<resolved_api_key, run_vars>>

LoopNext ==
    \/ OutlineNext
    \/ LoopFault

LoopSpec == OutlineInit /\ [][LoopNext]_vars

(***************************************************************************)
(* generate from its call to its return for a request of two chapters,     *)
(* with the handler of the chapter loop.                                   *)
(***************************************************************************)
HandlerRequests ==
    [word_count : {500}, chapter_mode : {TRUE}, max_words_per_chapter : {1000},
     sprache : {Englisch}]

HandlerInit == Init /\ cfg \in HandlerRequests

HandlerNext ==
    \/ Generate
    \/ CallReturns
    \/ CallRaises
    \/ Planning
    \/ OutlineDone
    \/ SegmentPrepare
    \/ ChapterDone
    \/ SummaryStep
    \/ SummaryDone
    \/ RunningStep
    \/ RunningDone
    \/ SegmentAppend
    \/ LoopFault
    \/ EpilogueDecision
    \/ EpilogueDone
    \/ Assembly

HandlerSpec == HandlerInit /\ [][HandlerNext]_vars

(***************************************************************************)
(* idea_generator.py: _parse_json_response (lines 255-331) on its own,     *)
(* given one of the response texts, and generate_proposals (lines 334-424) *)
(* with its request.                                                       *)
(***************************************************************************)
\* _parse_json_response: it returns the records, or the RecursionError of line 275
\* leaves it
ParseJsonResponse ==
    /\ pc = "ParseJsonResponse"
    /\ IF ParseRaises(response_text)
       THEN /\ pc' = "ParseRaised"
            /\ UNCHANGED <<proposals, processed_proposals>>
       ELSE /\ \E extracted \in {ExtractProposals(response_text)} :
               \E drawn \in [1..Len(extracted) ->
                                {DEFAULT_TARGET_WORDS_MIN, DEFAULT_TARGET_WORDS_MAX}] :
                   /\ proposals' = extracted
                   /\ processed_proposals' = PostProcess(extracted, language_code, drawn)
            /\ pc' = "Parsed"
    /\ UNCHANGED <<response_text, language_code, cfg, call, plan_vars, plot_outline, loop_vars,
                   full_story, result, history_vars>>
    /\ UNCHANGED <<resolved_api_key, temp_files, run_vars, scan_vars>>

\* lines 344-378: the prompts, the temporary file and the request
GenerateProposals ==
    /\ pc = "GenerateProposals"
    /\ pc' = "ProposalsRequest"
    /\ call' = Pending
    /\ issued' = issued \cup {<<"proposals", 0>>}
    /\ UNCHANGED <<idea_vars, cfg, plan_vars, plot_outline, loop_vars, full_story, result,
                   prompts, seg_status>>
    /\ temp_files' = MkStemp(<<"proposals", 0>>)
    /\ UNCHANGED <<resolved_api_key, run_vars>>

\* lines 381-424: the response is saved and parsed; after an exception the saved text is
\* parsed when it has more than 50 characters, and [] is returned otherwise.
\* saved: the response reached the temporary file; fault: an exception was raised
\* between the return of the request and the saving
ProposalsDone ==
    /\ pc = "ProposalsRequest" /\ Resolved
    /\ \E saved, fault \in BOOLEAN :
          /\ (call.state = "raised" \/ fault) => ~saved
          /\ call.state = "raised" => fault
          /\ temp_files' = RemoveTemp(RescueRead(<<"proposals", 0>>, fault), <<"proposals", 0>>)
          /\ \E parsed \in {call.state = "returned" /\ ~fault} :
             \E partial_response \in {IF saved THEN call.content ELSE <<>>} :
             \E text \in {IF parsed /\ ~ParseRaises(call.content) THEN call.content
                           ELSE IF Len(partial_response) > 50 /\ ~ParseRaises(partial_response)
                           THEN partial_response
                           ELSE None} :
                 /\ response_text' = IF parsed THEN call.content
                                     ELSE IF Len(partial_response) > 50 THEN partial_response
                                     ELSE response_text
                 /\ IF text = None
                    THEN proposals' = <<>> /\ processed_proposals' = <<>>
                    ELSE \E extracted \in {ExtractProposals(text)} :
                         \E drawn \in [1..Len(extracted) ->
                                          {DEFAULT_TARGET_WORDS_MIN, DEFAULT_TARGET_WORDS_MAX}] :
                             /\ proposals' = extracted
                             /\ processed_proposals' = PostProcess(extracted, language_code, drawn)
    /\ pc' = "ProposalsDone"
    /\ call' = NoCall
    /\ UNCHANGED <<language_code, cfg, plan_vars, plot_outline, loop_vars, full_story, result,
                   history_vars>>
    /\ UNCHANGED <<resolved_api_key, run_vars, scan_vars>>

SalvageInit ==
    /\ \/ pc = "ParseJsonResponse" /\ response_text \in ResponseTexts
       \/ pc = "GenerateProposals" /\ response_text = <<>>
    /\ language_code \in {"en", "de"}
    /\ proposals = <<>>
    /\ processed_proposals = <<>>
    /\ raw_content = <<>>
    /\ cursor = 0
    /\ cfg = [word_count |-> 500, chapter_mode |-> FALSE, max_words_per_chapter |-> 3000,
              sprache |-> Englisch]
    /\ call = NoCall
    /\ target_word_count = 0
    /\ num_chapters = 0
    /\ words_per_chapter_list = <<>>
    /\ plot_outline = None
    /\ generated_chapters = <<>>
    /\ context_for_next_chapter = <<<<>>, <<>>>>
    /\ running_plot_summary = <<>>
    /\ i = 0
    /\ chapter_text = None
    /\ chapter_context = NoContext
    /\ full_story = None
    /\ result = None
    /\ prompts = <<>>
    /\ seg_status = <<>>
    /\ issued = {}
    /\ FreshGenerator

SalvageNext ==
    \/ ParseJsonResponse
    \/ GenerateProposals
    \/ CallReturns
    \/ CallRetried
    \/ CallRaises
    \/ ProposalsDone

SalvageSpec == SalvageInit /\ [][SalvageNext]_vars

(***************************************************************************)
(* idea_generator.py: _repair_incomplete_json (lines 426-525) step by      *)
(* step, one action for each round of its while loop, on texts with        *)
(* fragments, with objects that are never closed and with braces and       *)
(* quotes inside strings.                                                  *)
(***************************************************************************)
SCAN_WRAPPED_OPEN ==
    <<"{","\"","i","d","e","a","s","\"",":","[","{","\"","a","\"",":","1","}",",","{","\"","b","\"",":",
    "2","}">>

SCAN_FRAGMENT_FIRST ==
    <<"[","{","\"","a","\"",":","1",",","}",",","{","\"","b","\"",":","2","}","]">>

SCAN_NOT_DICT ==
    <<"[","{","a","}",",","{","\"","b","\"",":","2","}","]">>

SCAN_STRING_BRACES ==
    <<"[","{","\"","a","\"",":","\"","}","x","{","\"","}",",","{","\"","b","\"",":","2","}","]">>

SCAN_ESCAPED_QUOTE ==
    <<"[","{","\"","a","\"",":","\"","q","\\","\"","}","\"","}",",","{","\"","b","\"",":","2","}","]">>

SCAN_ESCAPED_BACKSLASH ==
    <<"[","{","\"","a","\"",":","\"","\\","\\","\"","}",",","{","\"","b","\"",":","2","}","]">>

SCAN_TOP_STRING ==
    <<"[","{","\"","a","\"",":","1","}",",","\"","{","\"",",","{","\"","b","\"",":","2","}","]">>

SCAN_PROSE_QUOTE ==
    <<"U","s","e"," ","\"","{","\""," ","s","o",":"," ","[","{","\"","b","\"",":","2","}","]">>

SCAN_OPEN_LAST ==
    <<"[","{","\"","a","\"",":","1","}",",","{","\"","b","\"",":","2","}",",","{","\"","c","\"",":">>

SCAN_NESTED ==
    <<"[","{","\"","a","\"",":","{","\"","x","\"",":","1","}","}",",","{","\"","b","\"",":","2","}",
    "]">>

SCAN_CLOSE_FIRST ==
    <<"}","{","\"","a","\"",":","1","}">>

ScanTexts ==
    {SCAN_WRAPPED_OPEN, SCAN_FRAGMENT_FIRST, SCAN_NOT_DICT, SCAN_STRING_BRACES, SCAN_ESCAPED_QUOTE,
     SCAN_ESCAPED_BACKSLASH, SCAN_TOP_STRING, SCAN_PROSE_QUOTE, SCAN_OPEN_LAST, SCAN_NESTED,
     SCAN_CLOSE_FIRST}
    \cup ResponseTexts

\* lines 436-443: the index of the first bracket or brace, or -1
RepairStartIndex(partial_response_) ==
  Value({ (
    LET json_array_start == PyFind(partial_response, <<"[">>, 0)
        json_object_start == PyFind(partial_response, <<"{">>, 0)
    IN  IF json_array_start # -1
           /\ (json_object_start = -1 \/ json_array_start < json_object_start)
        THEN json_array_start
        ELSE IF json_object_start # -1 THEN json_object_start
        ELSE -1
  ) : partial_response \in {partial_response_} })

\* lines 432-452: the text from the first bracket on, or the empty list at once
RepairStart ==
    /\ pc = "RepairIncompleteJson"
    /\ proposals' = <<>>
    /\ \E start_index \in {RepairStartIndex(response_text)} :
          IF start_index = -1
          THEN pc' = "Repaired" /\ UNCHANGED scan_vars
          ELSE /\ raw_content' = From(response_text, start_index)
               /\ cursor' = 0
               /\ pc' = "RepairScan"
    /\ UNCHANGED <<response_text, language_code, processed_proposals, cfg, call, plan_vars,
                   plot_outline, loop_vars, full_story, result, history_vars>>
    /\ UNCHANGED <<resolved_api_key, temp_files, run_vars>>

\* a variant of the round that looks again from the object it found
RepairScanStepSameObject ==
    /\ pc = "RepairScan"
    /\ IF cursor < Len(raw_content)
       THEN \E obj_start \in {PyFind(raw_content, <<"{">>, cursor)} :
            \E obj_end \in {IF obj_start = -1 THEN -1 ELSE BraceScan(raw_content, obj_start)} :
                IF obj_start # -1 /\ obj_end > obj_start
                THEN \E proposal \in {JsonLoads(Slice(raw_content, obj_start, obj_end + 1))} :
                         /\ proposals' = IF proposal.ok /\ proposal.value.t = "obj"
                                         THEN Append(proposals, proposal.value)
                                         ELSE proposals
                         /\ cursor' = obj_start
                         /\ UNCHANGED pc
                ELSE pc' = "Repaired" /\ UNCHANGED <<proposals, cursor>>
       ELSE pc' = "Repaired" /\ UNCHANGED <<proposals, cursor>>
    /\ UNCHANGED <<response_text, language_code, processed_proposals, raw_content, cfg, call,
                   plan_vars, plot_outline, loop_vars, full_story, result, history_vars>>
    /\ UNCHANGED <<resolved_api_key, temp_files, run_vars>>

\* lines 453-518: one round of the while loop
RepairScanStep ==
    /\ pc = "RepairScan"
    /\ IF cursor < Len(raw_content)
       THEN \E obj_start \in {PyFind(raw_content, <<"{">>, cursor)} :
            \E obj_end \in {IF obj_start = -1 THEN -1 ELSE BraceScan(raw_content, obj_start)} :
                IF obj_start # -1 /\ obj_end > obj_start
                THEN \E proposal \in {JsonLoads(Slice(raw_content, obj_start, obj_end + 1))} :
                         /\ proposals' = IF proposal.ok /\ proposal.value.t = "obj"
                                         THEN Append(proposals, proposal.value)
                                         ELSE proposals
                         /\ cursor' = obj_end + 1
                         /\ UNCHANGED pc
                ELSE pc' = "Repaired" /\ UNCHANGED <<proposals, cursor>>
       ELSE pc' = "Repaired" /\ UNCHANGED <<proposals, cursor>>
    /\ UNCHANGED <<response_text, language_code, processed_proposals, raw_content, cfg, call,
                   plan_vars, plot_outline, loop_vars, full_story, result, history_vars>>
    /\ UNCHANGED <<resolved_api_key, temp_files, run_vars>>

ScanInit ==
    /\ pc = "RepairIncompleteJson" /\ response_text \in ScanTexts
    /\ language_code = "en"
    /\ proposals = <<>>
    /\ processed_proposals = <<>>
    /\ raw_content = <<>>
    /\ cursor = 0
    /\ cfg = [word_count |-> 500, chapter_mode |-> FALSE, max_words_per_chapter |-> 3000,
              sprache |-> Englisch]
    /\ call = NoCall
    /\ target_word_count = 0
    /\ num_chapters = 0
    /\ words_per_chapter_list = <<>>
    /\ plot_outline = None
    /\ generated_chapters = <<>>
    /\ context_for_next_chapter = <<<<>>, <<>>>>
    /\ running_plot_summary = <<>>
    /\ i = 0
    /\ chapter_text = None
    /\ chapter_context = NoContext
    /\ full_story = None
    /\ result = None
    /\ prompts = <<>>
    /\ seg_status = <<>>
    /\ issued = {}
    /\ FreshGenerator

ScanNext ==
    \/ RepairStart
    \/ RepairScanStep

\* the loop goes on as long as the code can take a step
ScanSpec == ScanInit /\ [][ScanNext]_vars /\ WF_vars(ScanNext)

(***************************************************************************)
(* _clean_text_ending on its own (lines 737-871): the text given to it, its *)
(* result, and the result of giving it that result again, the way the       *)
(* final clean of lines 1379-1383 runs over what line 1436 has cleaned.     *)
(***************************************************************************)
PREFIX_KEY ==
    <<"H","e"," ","t","u","r","n","e","d"," ","t","h","e"," ","k","e","y"," ">>

PREFIX_PARAGRAPH ==
    <<"T","h","e"," ","h","a","l","l"," ","w","a","s"," ","d","a","r","k",".","\n","\n">>

PREFIX_SENTENCE ==
    <<"T","h","e"," ","h","a","l","l"," ","w","a","s"," ","d","a","r","k","."," ">>

PREFIX_BOTH ==
    <<"T","h","e"," ","h","a","l","l"," ","w","a","s"," ","d","a","r","k",".","\n","\n","H","e"," ","t",
    "u","r","n","e","d"," ","t","h","e"," ","k","e","y","."," ">>

PREFIX_APOSTROPHE ==
    <<"I","t","'","s"," ","l","a","t","e"," ">>

PREFIX_DIALOGUE ==
    <<"T","h","e"," ","h","a","l","l"," ","w","a","s"," ","d","a","r","k",".","\n","\n","H","e"," ","w",
    "a","i","t","e","d","."," ","\"","G","o",".","\""," ">>

PREFIX_CURLY ==
    <<"LDQ","C","o","m","e"," ","i","n",",","RDQ"," ","h","e"," ","s","a","i","d","."," ">>

ENDING_FRAGMENT ==
    <<"a","n","d"," ","t","h","e"," ","d","o","o","r"," ","s","w","u","n","g"," ","o","p","e","n",".",
    " ","S","h","e"," ","s","t","e","p","p","e","d"," ","i","n","t","o"," ","t","h","e"," ","R","o",
    "o","m">>

ENDING_DIALOGUE ==
    <<"H","e"," ","s","a","i","d",","," ","\"","I"," ","w","i","l","l"," ","n","e","v","e","r">>

ENDING_COMPLETE ==
    <<"S","h","e"," ","s","t","e","p","p","e","d"," ","i","n","t","o"," ","t","h","e"," ","r","o","o",
    "m",".">>

ENDING_SHORT_PARAGRAPHS ==
    <<"T","h","e"," ","d","o","o","r"," ","s","w","u","n","g"," ","o","p","e","n",".","\n","\n","S","h",
    "e"," ","w","e","n","t"," ","i","n",".","\n","\n","D","o","n","e",".">>

ENDING_CONJUNCTION ==
    <<"S","h","e"," ","s","t","e","p","p","e","d"," ","i","n","t","o"," ","t","h","e"," ","r","o","o",
    "m"," ","a","n","d">>

ENDING_CLOSED_DIALOGUE ==
    <<"H","e"," ","s","a","i","d",","," ","\"","I"," ","w","i","l","l"," ","n","e","v","e","r"," ","g",
    "o",".","\"">>
RepairPrefixes == {<<>>, PREFIX_KEY, PREFIX_PARAGRAPH, PREFIX_SENTENCE, PREFIX_BOTH,
                   PREFIX_APOSTROPHE, PREFIX_DIALOGUE, PREFIX_CURLY}

RepairEndings == {ENDING_FRAGMENT, ENDING_DIALOGUE, ENDING_COMPLETE, ENDING_SHORT_PARAGRAPHS,
                  ENDING_CONJUNCTION, ENDING_CLOSED_DIALOGUE}

RepairTexts == { prefix \o ending : prefix \in RepairPrefixes, ending \in RepairEndings }

\* chapter_text is the text given, full_story what _clean_text_ending returns
CleanTextEndingOnce ==
    /\ pc = "CleanTextEnding"
    /\ full_story' = CleanTextEnding(chapter_text)
    /\ pc' = "Cleaned"
    /\ UNCHANGED <<cfg, call, plan_vars, plot_outline, generated_chapters,
                   context_for_next_chapter, running_plot_summary, i, chapter_text,
                   chapter_context, result, history_vars, idea_vars>>
    /\ UNCHANGED <<resolved_api_key, temp_files, run_vars>>

\* result is what _clean_text_ending returns for its own result
CleanTextEndingAgain ==
    /\ pc = "Cleaned"
    /\ result' = CleanTextEnding(full_story)
    /\ pc' = "CleanedAgain"
    /\ UNCHANGED <<cfg, call, plan_vars, plot_outline, loop_vars, full_story, history_vars,
                   idea_vars>>
    /\ UNCHANGED <<resolved_api_key, temp_files, run_vars>>

RepairInit ==
    /\ pc = "CleanTextEnding"
    /\ chapter_text \in RepairTexts
    /\ cfg = [word_count |-> 500, chapter_mode |-> FALSE, max_words_per_chapter |-> 3000,
              sprache |-> Englisch]
    /\ call = NoCall
    /\ target_word_count = 0
    /\ num_chapters = 0
    /\ words_per_chapter_list = <<>>
    /\ plot_outline = None
    /\ generated_chapters = <<>>
    /\ context_for_next_chapter = <<<<>>, <<>>>>
    /\ running_plot_summary = <<>>
    /\ i = 0
    /\ chapter_context = NoContext
    /\ full_story = None
    /\ result = None
    /\ prompts = <<>>
    /\ seg_status = <<>>
    /\ issued = {}
    /\ FreshGenerator
    /\ NoResponse

RepairNext ==
    \/ CleanTextEndingOnce
    \/ CleanTextEndingAgain

RepairSpec == RepairInit /\ [][RepairNext]_vars

(***************************************************************************)
(* _clean_text_ending on texts whose last paragraph is short or ends in a   *)
(* conjunction, after a paragraph that ends in punctuation or does not.     *)
(***************************************************************************)
TRAILING_ONE_WORD ==
    <<"H","e"," ","t","u","r","n","e","d"," ","t","h","e"," ","k","e","y"," ","a","n","d"," ","o",
    "p","e","n","e","d"," ","t","h","e"," ","d","o","o","r","\n","\n","D","o","n","e",".">>

TRAILING_THREE_WORDS ==
    <<"H","e"," ","t","u","r","n","e","d"," ","t","h","e"," ","k","e","y"," ","a","n","d"," ","o",
    "p","e","n","e","d"," ","t","h","e"," ","d","o","o","r","\n","\n","S","h","e"," ","w","e","n",
    "t"," ","i","n",".">>

TRAILING_AFTER_QUOTE ==
    <<"H","e"," ","c","a","l","l","e","d"," ","t","h","e"," ","p","l","a","c","e"," ","LDQ","t",
    "h","e"," ","q","u","i","e","t"," ","r","o","o","m","RDQ","\n","\n","S","h","e"," ","w","e",
    "n","t"," ","i","n",".">>

TRAILING_CONJUNCTION ==
    <<"T","h","e"," ","h","a","l","l"," ","w","a","s"," ","d","a","r","k"," ","a","n","d"," ","c",
    "o","l","d",".","\n","\n","S","h","e"," ","s","t","e","p","p","e","d"," ","i","n","t","o"," ",
    "t","h","e"," ","r","o","o","m"," ","a","n","d",".">>

TRAILING_CAPITAL_CONJUNCTION ==
    <<"T","h","e"," ","h","a","l","l"," ","w","a","s"," ","d","a","r","k"," ","a","n","d"," ","c",
    "o","l","d",".","\n","\n","S","h","e"," ","a","s","k","e","d"," ","h","i","m"," ","a","g","a",
    "i","n","."," ","B","u","t","?">>

TRAILING_LONG ==
    <<"H","e"," ","t","u","r","n","e","d"," ","t","h","e"," ","k","e","y"," ","a","n","d"," ","o",
    "p","e","n","e","d"," ","t","h","e"," ","d","o","o","r","\n","\n","S","h","e"," ","w","e","n",
    "t"," ","i","n","t","o"," ","t","h","e"," ","r","o","o","m",".">>

TrailingTexts ==
    RepairTexts \cup {TRAILING_ONE_WORD, TRAILING_THREE_WORDS, TRAILING_AFTER_QUOTE,
                      TRAILING_CONJUNCTION, TRAILING_CAPITAL_CONJUNCTION, TRAILING_LONG}

TrailingInit ==
    /\ pc = "CleanTextEnding"
    /\ chapter_text \in TrailingTexts
    /\ cfg = [word_count |-> 500, chapter_mode |-> FALSE, max_words_per_chapter |-> 3000,
              sprache |-> Englisch]
    /\ call = NoCall
    /\ target_word_count = 0
    /\ num_chapters = 0
    /\ words_per_chapter_list = <<>>
    /\ plot_outline = None
    /\ generated_chapters = <<>>
    /\ context_for_next_chapter = <<<<>>, <<>>>>
    /\ running_plot_summary = <<>>
    /\ i = 0
    /\ chapter_context = NoContext
    /\ full_story = None
    /\ result = None
    /\ prompts = <<>>
    /\ seg_status = <<>>
    /\ issued = {}
    /\ FreshGenerator
    /\ NoResponse

TrailingNext ==
    \/ CleanTextEndingOnce
    \/ CleanTextEndingAgain

TrailingSpec == TrailingInit /\ [][TrailingNext]_vars

(***************************************************************************)
(* The construction of the generator (lines 480-499) followed by generate.  *)
(***************************************************************************)
ARGUMENT_KEY == <<"a", "r", "g">>

ENVIRONMENT_KEY == <<"e", "n", "v">>

\* the api_key argument: None, the empty string or a key
ApiKeyArguments == {None, <<>>, ARGUMENT_KEY}

\* os.environ.get("NEBIUS_API_KEY"): None when the variable is not set
EnvironmentKeys == {None, <<>>, ENVIRONMENT_KEY}

\* not x, for a string or None
Falsy(x) == x \in {None, <<>>}

\* lines 480-499: the credential is resolved, the client is built
Construct ==
    /\ pc = "Construct"
    /\ \E api_key \in ApiKeyArguments, environment_key \in EnvironmentKeys,
          client_raises \in BOOLEAN :
          \E resolved \in {IF Falsy(api_key) THEN environment_key ELSE api_key} :
              /\ resolved_api_key' = resolved
              /\ pc' = IF Falsy(resolved) THEN "ValueError"
                       ELSE IF client_raises THEN "ClientError"
                       ELSE "Start"
    /\ UNCHANGED <<cfg, call, plan_vars, plot_outline, loop_vars, full_story, result,
                   history_vars, idea_vars, temp_files, run_vars>>

ConfigLanguages == {Englisch, <<"E", "N">>, Latein, <<"f", "r">>, <<>>}

ConfigRequests ==
    [word_count : {500}, chapter_mode : BOOLEAN, max_words_per_chapter : {1000},
     sprache : ConfigLanguages]

ConfigInit ==
    /\ pc = "Construct"
    /\ cfg \in ConfigRequests
    /\ resolved_api_key = None
    /\ call = NoCall
    /\ target_word_count = 0
    /\ num_chapters = 0
    /\ words_per_chapter_list = <<>>
    /\ plot_outline = None
    /\ generated_chapters = <<>>
    /\ context_for_next_chapter = <<<<>>, <<>>>>
    /\ running_plot_summary = <<>>
    /\ i = 0
    /\ chapter_text = None
    /\ chapter_context = NoContext
    /\ full_story = None
    /\ result = None
    /\ prompts = <<>>
    /\ seg_status = <<>>
    /\ issued = {}
    /\ temp_files = NoTempFiles
    /\ run_log = NoLog
    /\ first_run = NoFirstRun
    /\ NoResponse

ConfigNext ==
    \/ Construct
    \/ Next

ConfigSpec == ConfigInit /\ [][ConfigNext]_vars

(***************************************************************************)
(* The runs with their temporary files followed: generate in chapter mode   *)
(* and with one request for the whole story, and generate_proposals.        *)
(***************************************************************************)
TempRequests ==
    [word_count : {500}, chapter_mode : BOOLEAN, max_words_per_chapter : {1000},
     sprache : {Englisch}]

TempInit ==
    /\ \/ pc = "Start"
       \/ pc = "GenerateProposals"
    /\ cfg \in TempRequests
    /\ pc = "GenerateProposals" => ~cfg.chapter_mode
    /\ temp_files = [NoTempFiles EXCEPT !.followed = TRUE]
    /\ resolved_api_key = API_KEY
    /\ run_log = NoLog
    /\ first_run = NoFirstRun
    /\ call = NoCall
    /\ target_word_count = 0
    /\ num_chapters = 0
    /\ words_per_chapter_list = <<>>
    /\ plot_outline = None
    /\ generated_chapters = <<>>
    /\ context_for_next_chapter = <<<<>>, <<>>>>
    /\ running_plot_summary = <<>>
    /\ i = 0
    /\ chapter_text = None
    /\ chapter_context = NoContext
    /\ full_story = None
    /\ result = None
    /\ prompts = <<>>
    /\ seg_status = <<>>
    /\ issued = {}
    /\ NoResponse

TempNext ==
    \/ Next
    \/ GenerateProposals
    \/ ProposalsDone

TempSpec == TempInit /\ [][TempNext]_vars

(***************************************************************************)
(* generate called twice with the same request, for the comparison of two   *)
(* runs.  The first run is logged; a request of it returns its full text or *)
(* fails at its first invocation.  The second run is free in its errors and *)
(* retries and is followed only as long as each of its requests ends as the *)
(* request of the first run did: returned with the same text, or raised.    *)
(***************************************************************************)
DiagnosticRequests ==
    [word_count : {500}, chapter_mode : BOOLEAN, max_words_per_chapter : {1000},
     sprache : {Englisch}]

DiagnosticInit ==
    /\ pc = "Start"
    /\ cfg \in DiagnosticRequests
    /\ run_log = [NoLog EXCEPT !.logging = TRUE]
    /\ first_run = NoFirstRun
    /\ temp_files = NoTempFiles
    /\ resolved_api_key = API_KEY
    /\ call = NoCall
    /\ target_word_count = 0
    /\ num_chapters = 0
    /\ words_per_chapter_list = <<>>
    /\ plot_outline = None
    /\ generated_chapters = <<>>
    /\ context_for_next_chapter = <<<<>>, <<>>>>
    /\ running_plot_summary = <<>>
    /\ i = 0
    /\ chapter_text = None
    /\ chapter_context = NoContext
    /\ full_story = None
    /\ result = None
    /\ prompts = <<>>
    /\ seg_status = <<>>
    /\ issued = {}
    /\ NoResponse

\* generate has returned and is called again with the same arguments
Restart ==
    /\ pc = "Done"
    /\ ~first_run.done
    /\ first_run' = [done |-> TRUE, outcomes |-> run_log.outcomes,
                     diagnostics |-> run_log.diagnostics, result |-> result]
    /\ run_log' = [NoLog EXCEPT !.logging = TRUE]
    /\ pc' = "Start"
    /\ call' = NoCall
    /\ target_word_count' = 0
    /\ num_chapters' = 0
    /\ words_per_chapter_list' = <<>>
    /\ plot_outline' = None
    /\ generated_chapters' = <<>>
    /\ context_for_next_chapter' = <<<<>>, <<>>>>
    /\ running_plot_summary' = <<>>
    /\ i' = 0
    /\ chapter_text' = None
    /\ chapter_context' = NoContext
    /\ full_story' = None
    /\ result' = None
    /\ prompts' = <<>>
    /\ seg_status' = <<>>
    /\ issued' = {}
    /\ UNCHANGED <<cfg, idea_vars, resolved_api_key, temp_files>>

\* the first run has no retries, its requests return their full text or raise, and
\* the outline, chapter or epilogue that was returned is saved to its temporary file;
\* the second run ends each request as the first did
SameOutcomes ==
    IF ~first_run.done
    THEN /\ call'.retries = 0
         /\ call'.state = "returned" => call'.content \in {STORY_LONG, OUTLINE_STRUCTURED, CHAPTER_LONG,
                                                           SUMMARY_TEXT, RUNNING_TEXT, EPILOGUE_LONG}
         /\ \A k \in 1..Len(run_log'.outcomes) :
                (/\ run_log'.outcomes[k].returned
                 /\ run_log'.outcomes[k].step[1] \in {"story", "outline", "chapter", "epilogue"})
                    => run_log'.outcomes[k].saved
    ELSE /\ Len(run_log'.outcomes) <= Len(first_run.outcomes)
         /\ \A k \in 1..Len(run_log'.outcomes) : run_log'.outcomes[k] = first_run.outcomes[k]
         /\ call'.state \in {"returned", "raised"}
                => /\ Len(run_log.outcomes) < Len(first_run.outcomes)
                   /\ \E expected \in {first_run.outcomes[Len(run_log.outcomes) + 1]} :
                         /\ expected.returned = (call'.state = "returned")
                         /\ expected.returned => call'.content = expected.content

DiagnosticNext ==
    \/ Next /\ SameOutcomes
    \/ Restart

DiagnosticSpec == DiagnosticInit /\ [][DiagnosticNext]_vars

(***************************************************************************)
(* Properties of the chapter-mode run and of generate.                     *)
(***************************************************************************)

\* C1: every chapter-mode run reaches Done, whichever requests fail; on the way the
\* position moves only along Planning, OutlineGeneration, the segment loop, the
\* epilogue decision, the optional epilogue generation and Assembly, and the
\* segment iterations are 1..N in increasing order, each exactly once.
C1_ChapterRunTerminatesInOrder ==
    /\ (pc = "Planning") ~> (pc = "Done")
    /\ [][LET segment_loop == {"SegmentPrepare", "SegmentGenerate", "SegmentSummary",
                               "SegmentRunning", "SegmentAppend"}
              Phase(p) == IF p \in segment_loop THEN "SegmentLoop" ELSE p
              order == { <<"Planning", "OutlineGeneration">>,
                         <<"OutlineGeneration", "SegmentLoop">>,
                         <<"SegmentLoop", "SegmentLoop">>,
                         <<"SegmentLoop", "EpilogueDecision">>,
                         <<"EpilogueDecision", "EpilogueGeneration">>,
                         <<"EpilogueDecision", "Assembly">>,
                         <<"EpilogueGeneration", "Assembly">>,
                         <<"Assembly", "Done">> }
          IN  /\ (pc' # pc /\ pc \notin {"Start", "SingleStory"})
                     => <<Phase(pc), Phase(pc')>> \in order
              /\ prompts' # prompts
                     => /\ pc = "SegmentPrepare"
                        /\ prompts' = Append(prompts, chapter_context')
                        /\ chapter_context'.kapitel_nummer = Len(prompts) + 1
                        /\ Len(prompts') <= num_chapters
              /\ (pc = "SegmentAppend" /\ pc' = "EpilogueDecision")
                     => Len(prompts) = num_chapters]_vars
    /\ []((pc = "Done" /\ num_chapters > 0)
             => /\ Len(prompts) = num_chapters
                /\ Len(generated_chapters) = num_chapters
                /\ \A k \in 1..num_chapters : prompts[k].kapitel_nummer = k)

\* C1 witness: a run of two chapters is Done after the outline request and the
\* request of the first chapter failed
C1_Witness ==
    /\ pc = "Done" /\ num_chapters = 2
    /\ plot_outline = OutlineUnavailable
    /\ Len(prompts) = 2
    /\ seg_status[1] = "failed"

\* C2 (as stated): for a supported language generate returns a document, never
\* None, in chapter mode and in single-call mode, whichever requests fail.
C2_AlwaysADocument ==
    (pc = "Done" /\ GetLangConfig(cfg.sprache) # None) => result # None

\* C3: when the request of a chapter raises after its retries, the error body of
\* that chapter is recorded as its text, the chapter counts as failed, and the loop
\* goes on: every later chapter is still requested and the run returns a document.
C3_FailedSegmentContinues ==
    /\ [][(pc = "SegmentGenerate" /\ call.state = "raised")
             => /\ seg_status' = Append(seg_status, "failed")
                /\ EndsWith(chapter_text', <<":", " ", "[", "G", "e", "n", "e", "r", "a", "t",
                                             "i", "o", "n", " ", "E", "r", "r", "o", "r", "]">>
                                           \o ParaSep \o ERROR_CHAPTER_CONTENT)
                /\ pc' = "SegmentSummary"]_vars
    /\ [](\A k \in 1..Len(generated_chapters) :
             seg_status[k] = "failed"
                 => /\ Contains(generated_chapters[k], ERROR_CHAPTER_CONTENT)
                    /\ Contains(generated_chapters[k], chapter_word \o <<" ">> \o NumText(k))
                    /\ (pc = "Done" /\ k < num_chapters)
                           => /\ <<"chapter", k + 1>> \in issued
                              /\ Len(generated_chapters) = num_chapters
                              /\ result # None)

\* C3 witness: the first of three chapters failed, the two after it were written,
\* and the run is Done
C3_Witness ==
    /\ pc = "Done" /\ num_chapters = 3
    /\ seg_status = <<"failed", "ok", "ok">>
    /\ Contains(result, ERROR_CHAPTER_CONTENT)
    /\ Contains(result, CHAPTER_LONG)

\* C4: when the outline request raises, the outline is the fixed marker; no segment
\* is extracted from it for any chapter 1..N, every chapter prompt carries the
\* fixed placeholder, and all N chapters are requested.
C4_OutlineFailureContinues ==
    /\ [][(pc = "OutlineGeneration" /\ call.state = "raised")
             => /\ plot_outline' = <<"[">> \o ERROR_GENERATING_OUTLINE_FALLBACK \o <<"]">>
                /\ pc' = "SegmentPrepare"]_vars
    /\ [](plot_outline = <<"[">> \o ERROR_GENERATING_OUTLINE_FALLBACK \o <<"]">>
             => /\ \A k \in 1..num_chapters : ExtractOutlineSegment(plot_outline, k) = None
                /\ \A k \in 1..Len(prompts) :
                       prompts[k].plot_outline_segment = outline_segment_placeholder
                /\ pc = "Done"
                       => /\ Len(prompts) = num_chapters
                          /\ \A k \in 1..num_chapters : <<"chapter", k>> \in issued)

\* C4 witness: a run of three chapters is Done on the marker outline
C4_Witness ==
    /\ pc = "Done" /\ num_chapters = 3
    /\ plot_outline = OutlineUnavailable
    /\ \A k \in 1..3 : prompts[k].plot_outline_segment = outline_segment_placeholder
    /\ seg_status = <<"ok", "ok", "ok">>

\* C5: the epilogue is requested exactly when the last chapter is not a failed one,
\* whatever happened to the chapters before it; a rescued or short last chapter
\* still gets the request.
C5_EpilogueIffLastNotFailed ==
    num_chapters > 0
        => (<<"epilogue", 0>> \in issued
               <=> /\ pc \in {"EpilogueGeneration", "Assembly", "Done"}
                   /\ seg_status[num_chapters] # "failed")

\* C5 witness: the epilogue was requested after a rescued last chapter that followed
\* a failed one
C5_Witness ==
    /\ num_chapters = 3
    /\ <<"epilogue", 0>> \in issued
    /\ seg_status[1] = "failed"
    /\ seg_status[3] = "rescued"

\* C6 (as stated): the document of every chapter-mode run holds an epilogue or the
\* notice that the epilogue is missing, never neither.
C6_EpilogueOrNotice ==
    (pc = "Done" /\ num_chapters > 0)
        => \/ Contains(result, epilogue_title_correct)
           \/ Contains(result, RESCUED_EPILOG_NOTICE)

C9_RunningSummaryKept ==
    [][(pc = "SegmentRunning" /\ (call.state = "raised"
                                   \/ (call.state = "returned" /\ call.content = <<>>)))
          => /\ running_plot_summary' = running_plot_summary
             /\ pc' = "SegmentAppend"]_vars

\* C9 witness: the update for the second chapter was requested and the chapter is
\* about to be appended with the running summary the first chapter had left
C9_Witness ==
    /\ pc = "SegmentAppend" /\ i = 1
    /\ <<"running", 2>> \in issued
    /\ running_plot_summary = prompts[2].running_plot_summary
    /\ running_plot_summary # prompts[1].running_plot_summary

\* C10: when the synopsis request raises, the new detailed context is the fixed
\* fallback synopsis followed by the start marker, the raw end of the chapter and
\* the end marker, and the run goes on to the running summary.
C10_SynopsisFailureKeepsTail ==
    [][(pc = "SegmentSummary" /\ call.state = "raised")
          => /\ RawEnd(chapter_text) # <<>>
             /\ context_for_next_chapter'
                    = << SUMMARY_LLM_PREFIX \o NL \o SUMMARY_FALLBACK
                         \o SUMMARY_RAW_END_MARKER_START \o NL \o RawEnd(chapter_text)
                         \o NL \o SUMMARY_RAW_END_MARKER_END,
                         RawEnd(chapter_text) >>
             /\ pc' = "SegmentRunning"]_vars

\* C10 witness: after a synopsis request for the first chapter the context is the
\* fallback synopsis with the marked raw end of the chapter
C10_Witness ==
    /\ pc = "SegmentRunning"
    /\ <<"summary", i + 1>> \in issued
    /\ StartsWith(context_for_next_chapter[1],
                  FallbackSummaryPart \o SUMMARY_RAW_END_MARKER_START)
    /\ context_for_next_chapter[2] = RawEnd(chapter_text)
    /\ Contains(context_for_next_chapter[1], context_for_next_chapter[2])


(***************************************************************************)
(* Properties of the retry executors.                                      *)
(***************************************************************************)

\* C11: the executor calls call_function at most four times (the first attempt and
\* MAX_RETRIES retries); when every invocation raised a retryable error, it has
\* called four times, slept three times, and raises the error of the fourth.
C11_AtMostFourAttempts ==
    /\ call.invocations <= MAX_RETRIES + 1
    /\ (/\ call.state = "raised"
        /\ \A k \in 1..Len(call.errors) : IsRetryableAt(pc, call.errors[k]))
           => /\ call.invocations = 4
              /\ Len(call.errors) = 4
              /\ call.sleeps = 3
              /\ call.raised = call.errors[4]

\* C11 witness: the story generator's executor has raised after four retryable
\* errors, and the error raised is the fourth, which differs from the first
C11_Witness ==
    /\ pc = "Executor" /\ call.state = "raised"
    /\ Len(call.errors) = 4
    /\ \A k \in 1..4 : IsRetryable(call.errors[k])
    /\ call.errors[1] = ERROR_OVERLOADED
    /\ call.errors[4] = ERROR_TIMEOUT
    /\ call.raised = ERROR_TIMEOUT

C13_ReturnsAfterRetries ==
    /\ call.state = "returned"
           => \E k \in 0..MAX_RETRIES :
                 /\ Len(call.errors) = k
                 /\ \A j \in 1..k : IsRetryableAt(pc, call.errors[j])
                 /\ call.invocations = k + 1
                 /\ call.warnings = k
                 /\ call.sleeps = k
                 /\ call.content \in Responses(pc)
                 /\ call.raised = None
    /\ call.state = "pending" => call.sleeps = call.invocations - 1

\* C13 witness: the story generator's executor has returned the response after two
\* invocations that raised the 503 message
C13_Witness ==
    /\ pc = "Executor" /\ call.state = "returned"
    /\ call.errors = <<ERROR_OVERLOADED, ERROR_OVERLOADED>>
    /\ call.content = SUMMARY_TEXT
    /\ call.invocations = 3 /\ call.warnings = 2 /\ call.sleeps = 2


(***************************************************************************)
(* Properties of the planner.                                              *)
(***************************************************************************)
RECURSIVE SumOf(_)
SumOf(ws_) ==
  Value({ (
    IF ws = <<>> THEN 0 ELSE ws[1] + SumOf(Tail(ws))
  ) : ws \in {ws_} })

\* C14 (as stated): the planned word counts sum to the word count the planner was
\* given.
C14_SharesSumToTotal ==
    pc = "OutlineGeneration" => SumOf(words_per_chapter_list) = target_word_count

\* C14 (amended): the planned word counts sum to at least the word count given;
\* they sum to exactly that count when it is at least 100 words per planned
\* chapter, which every count from 400 on is, and exceed it otherwise, the floor
\* of 100 having raised a share.
C14_SharesSumUnlessFloored ==
    pc = "OutlineGeneration"
        => /\ SumOf(words_per_chapter_list) >= target_word_count
           /\ SumOf(words_per_chapter_list) = target_word_count
                  <=> target_word_count >= minimum_floor * num_chapters
           /\ target_word_count >= 400
                  => SumOf(words_per_chapter_list) = target_word_count

\* C14 witness: 250 words under a limit of 100 are planned as three chapters of
\* 100 words
C14_Witness ==
    /\ pc = "OutlineGeneration"
    /\ target_word_count = 250 /\ cfg.max_words_per_chapter = 100
    /\ words_per_chapter_list = <<100, 100, 100>>

\* C15 (as stated): the planner adds at most one chapter to the number computed
\* first, and no planned word count exceeds max_words_per_chapter * 1.2.
C15_NoShareOverLimit ==
    pc = "OutlineGeneration"
        => /\ num_chapters - InitialChapterCount(target_word_count,
                                                 cfg.max_words_per_chapter) \in {0, 1}
           /\ \A k \in 1..Len(words_per_chapter_list) :
                  10 * words_per_chapter_list[k] <= 12 * cfg.max_words_per_chapter

\* C15 (amended): the planner adds at most one chapter to the number computed
\* first, and adds it exactly when a share of the first distribution exceeds
\* max_words_per_chapter * 1.1; when it adds none, every planned word count is at
\* most max_words_per_chapter * 1.1 or is the floor of 100; after the one
\* recalculation a word count is accepted whatever its size.
C15_RebalancedAtMostOnce ==
    pc = "OutlineGeneration"
        => \E n1 \in {InitialChapterCount(target_word_count, cfg.max_words_per_chapter)} :
              /\ num_chapters - n1 \in {0, 1}
              /\ num_chapters = n1 + 1
                     <=> \E k \in 1..n1 :
                            10 * Distribute(target_word_count, n1)[k]
                                > 11 * cfg.max_words_per_chapter
              /\ num_chapters = n1
                     => \A k \in 1..Len(words_per_chapter_list) :
                            \/ 10 * words_per_chapter_list[k] <= 11 * cfg.max_words_per_chapter
                            \/ words_per_chapter_list[k] = minimum_floor

\* C15 witness: 14000 words under a limit of 1000 are planned as seven chapters of
\* 2000 words, one chapter more than computed first
C15_Witness ==
    /\ pc = "OutlineGeneration"
    /\ target_word_count = 14000 /\ cfg.max_words_per_chapter = 1000
    /\ InitialChapterCount(14000, 1000) = 6
    /\ num_chapters = 7
    /\ \A k \in 1..7 : words_per_chapter_list[k] = 2000

\* C16: the planner returns at least one chapter, as many word counts as
\* chapters, and no word count below the floor of 100.
C16_CountLengthFloor ==
    pc = "OutlineGeneration"
        => /\ num_chapters >= 1
           /\ Len(words_per_chapter_list) = num_chapters
           /\ \A k \in 1..Len(words_per_chapter_list) :
                  words_per_chapter_list[k] >= minimum_floor

\* C16 witness: 50 words are planned as one chapter of 100 words
C16_Witness ==
    /\ pc = "OutlineGeneration"
    /\ target_word_count = 50
    /\ num_chapters = 1
    /\ words_per_chapter_list = <<100>>

\* C17 (as stated): the run asked for 12000 words with a limit of 3000 words per
\* chapter plans five chapters whose word counts sum to 12000.
C17_TwelveThousandInFive ==
    (/\ pc = "OutlineGeneration"
     /\ cfg.word_count = 12000 /\ cfg.max_words_per_chapter = 3000)
        => /\ num_chapters = 5
           /\ SumOf(words_per_chapter_list) = 12000


C19_MissingSliceStillRequested ==
    /\ [](plot_outline # None
            => \A k \in 1..Len(prompts) :
                  LET NoHeading ==
                        /\ \A j \in 0..Len(plot_outline) :
                               StartPatternEnd(plot_outline, k, j) = -1
                        /\ \A j \in 0..Len(plot_outline) :
                               NumOnlyPatternEnd(plot_outline, k, j) = -1
                      EmptyText == plot_outline = OUTLINE_EMPTY_PARTS /\ k \in {1, 3}
                  IN  (NoHeading \/ EmptyText)
                         => /\ ExtractOutlineSegment(plot_outline, k) = None
                            /\ prompts[k].plot_outline_segment = outline_segment_placeholder
                            /\ <<"chapter", k>> \in issued)
    /\ [][pc = "SegmentPrepare"
             => /\ pc' = "SegmentGenerate"
                /\ call' = Pending
                /\ Len(prompts') = i + 1]_vars

\* C19 witness: the third chapter of the outline whose chapters 1 and 3 have a
\* heading without text is being requested with the placeholder in its prompt
C19_Witness ==
    /\ plot_outline = OUTLINE_EMPTY_PARTS
    /\ pc = "SegmentGenerate" /\ i = 2 /\ call.state = "pending"
    /\ prompts[1].plot_outline_segment = outline_segment_placeholder
    /\ prompts[2].plot_outline_segment = <<"R","i","v","e","r">>
    /\ prompts[3].plot_outline_segment = outline_segment_placeholder
    /\ <<"chapter", 3>> \in issued


(***************************************************************************)
(* Properties of the response salvager.                                    *)
(***************************************************************************)
\* C20 (as stated): given the array [{"a":1},{"b":2}] inside prose and followed by the
\* truncated fragment {"c": the salvager returns exactly the two complete objects,
\* in the order of the input.
C20_TwoObjectsReturned ==
    (/\ pc = "Parsed"
     /\ response_text \in {prose \o ARRAY_AB \o tail :
                               prose \in {PROSE_IDEAS, PROSE_BRACKETS},
                               tail \in {<<" ">> \o FRAGMENT_C,
                                         FENCE_CLOSE \o <<" ">> \o FRAGMENT_C}})
        => processed_proposals = << [t |-> "obj", v |-> (<<"a">> :> [t |-> "int", v |-> 1])],
                                    [t |-> "obj", v |-> (<<"b">> :> [t |-> "int", v |-> 2])] >>

\* C20 (amended): on such a text the list taken from the response, by json.loads or
\* by the repair scan, holds exactly the two complete objects in the order of the
\* input, and the repair scan alone yields the same list; the truncated fragment is
\* left out.  The post-processing then drops both objects, which have none of the
\* required keys, and the salvager returns the empty list.  With the two records
\* that have the required keys in place of the two objects, the salvager returns
\* these two, standardised, in the order of the input.
C20_TwoObjectsSalvagedThenDropped ==
    LET Texts(array) == {prose \o array \o tail :
                            prose \in {PROSE_IDEAS, PROSE_BRACKETS},
                            tail \in {<<" ">> \o FRAGMENT_C,
                                      FENCE_CLOSE \o <<" ">> \o FRAGMENT_C}}
        two == << [t |-> "obj", v |-> (<<"a">> :> [t |-> "int", v |-> 1])],
                  [t |-> "obj", v |-> (<<"b">> :> [t |-> "int", v |-> 2])] >>
        Field(k, key) == processed_proposals[k].v[key]
    IN  /\ (pc = "Parsed" /\ response_text \in Texts(ARRAY_AB))
              => /\ proposals = two
                 /\ RepairIncompleteJson(response_text) = two
                 /\ processed_proposals = <<>>
        /\ (pc = "Parsed" /\ response_text \in Texts(ARRAY_RECORDS))
              => /\ Len(proposals) = 2
                 /\ Len(RepairIncompleteJson(response_text)) = 2
                 /\ Len(processed_proposals) = 2
                 /\ \A k \in 1..2 : DOMAIN processed_proposals[k].v
                                         = {required_keys[r] : r \in 1..Len(required_keys)}
                 /\ Field(1, <<"t","i","t","e","l">>) = [t |-> "str", v |-> <<"T">>]
                 /\ Field(2, <<"t","i","t","e","l">>) = [t |-> "str", v |-> <<"U">>]
                 /\ Field(1, <<"w","o","r","t","a","n","z","a","h","l">>) = [t |-> "int", v |-> 7]
                 /\ Field(2, <<"w","o","r","t","a","n","z","a","h","l">>).t = "int"
                 /\ Field(2, <<"w","o","r","t","a","n","z","a","h","l">>).v
                        \in {DEFAULT_TARGET_WORDS_MIN, DEFAULT_TARGET_WORDS_MAX}
                 /\ Field(1, <<"g","e","n","r","e">>) = [t |-> "str", v |-> <<"G">>]
                 /\ Field(2, <<"g","e","n","r","e">>).v = IF language_code = "en"
                                         THEN <<"[","U","n","k","n","o","w","n","]">>
                                         ELSE <<"[","U","n","b","e","k","a","n","n","t","]">>

\* C20 witness: the two objects were read from the text with prose before them and
\* the fragment after them, and none of them is returned
C20_Witness ==
    /\ pc = "Parsed"
    /\ response_text = PROSE_IDEAS \o ARRAY_AB \o <<" ">> \o FRAGMENT_C
    /\ proposals = << [t |-> "obj", v |-> (<<"a">> :> [t |-> "int", v |-> 1])],
                      [t |-> "obj", v |-> (<<"b">> :> [t |-> "int", v |-> 2])] >>
    /\ processed_proposals = <<>>


\* a value that Python takes for empty: "", 0, [], {} or None
EmptyValue(x) ==
    \/ x.t = "none"
    \/ x.t = "int" /\ x.v = 0
    \/ x.t \in {"str", "arr"} /\ Len(x.v) = 0
    \/ x.t = "obj" /\ DOMAIN x.v = {}

\* the value an item of the response has for a required key once the alias is
\* folded into it: the alias when the item has it, else the key itself
FoldedField(item, alias, key) ==
    IF alias \in DOMAIN item.v THEN item.v[alias]
    ELSE IF key \in DOMAIN item.v THEN item.v[key]
    ELSE JsonNone

\* the indices of the items of the response that lack nothing after the folding:
\* objects with a title, a prompt and a setting, whose word count is not 0 (a genre
\* and a word count that are missing are filled in)
CompleteItems ==
    {k \in 1..Len(proposals) :
        /\ proposals[k].t = "obj"
        /\ ~EmptyValue(FoldedField(proposals[k], <<"t","i","t","l","e">>, <<"t","i","t","e","l">>))
        /\ ~EmptyValue(FoldedField(proposals[k], <<"p","r","o","m","p","t">>,
                                   <<"p","r","o","m","p","t">>))
        /\ ~EmptyValue(FoldedField(proposals[k], <<"s","e","t","t","i","n","g">>,
                                   <<"s","e","t","t","i","n","g">>))
        /\ FoldedField(proposals[k], <<"w","o","r","d","c","o","u","n","t">>,
                       <<"w","o","r","t","a","n","z","a","h","l">>).t = "int"
               => ~EmptyValue(FoldedField(proposals[k], <<"w","o","r","d","c","o","u","n","t">>,
                                          <<"w","o","r","t","a","n","z","a","h","l">>))}

\* C21: every record the salvager returns has the five required fields titel, prompt,
\* setting, genre and wortanzahl, none of them empty, and neither of the aliases
\* title and wordcount, whose values are found under titel and wortanzahl; the
\* records returned are, in the order of the response, exactly the items that lack
\* no required field after the folding: an item that lacks one is not returned at all.
C21_ReturnedRecordsComplete ==
    pc = "Parsed" =>
        /\ \A k \in 1..Len(processed_proposals) :
               /\ processed_proposals[k].t = "obj"
               /\ \A r \in 1..Len(required_keys) :
                      /\ required_keys[r] \in DOMAIN processed_proposals[k].v
                      /\ ~EmptyValue(processed_proposals[k].v[required_keys[r]])
               /\ <<"t","i","t","l","e">> \notin DOMAIN processed_proposals[k].v
               /\ <<"w","o","r","d","c","o","u","n","t">> \notin DOMAIN processed_proposals[k].v
        /\ Len(processed_proposals) = Cardinality(CompleteItems)
        /\ \A k \in 1..Len(processed_proposals) :
               LET from == CHOOSE n \in CompleteItems :
                               Cardinality({m \in CompleteItems : m <= n}) = k
                   rec == processed_proposals[k].v
               IN  /\ rec[<<"t","i","t","e","l">>]
                          = FoldedField(proposals[from], <<"t","i","t","l","e">>,
                                        <<"t","i","t","e","l">>)
                   /\ rec[<<"p","r","o","m","p","t">>] = proposals[from].v[<<"p","r","o","m","p","t">>]
                   /\ rec[<<"s","e","t","t","i","n","g">>]
                          = proposals[from].v[<<"s","e","t","t","i","n","g">>]
                   /\ FoldedField(proposals[from], <<"w","o","r","d","c","o","u","n","t">>,
                                  <<"w","o","r","t","a","n","z","a","h","l">>).t = "int"
                          => rec[<<"w","o","r","t","a","n","z","a","h","l">>]
                                 = FoldedField(proposals[from],
                                               <<"w","o","r","d","c","o","u","n","t">>,
                                               <<"w","o","r","t","a","n","z","a","h","l">>)

\* C21 witness: of the four items of the mixed array one is returned, with the title
\* and the word count it had under the aliases; the item with an empty prompt, the
\* item with an empty title and the number are left out
C21_Witness ==
    /\ pc = "Parsed"
    /\ response_text = PROSE_IDEAS \o ARRAY_MIXED
    /\ Len(proposals) = 4
    /\ Len(processed_proposals) = 1
    /\ processed_proposals[1].v[<<"t","i","t","e","l">>] = [t |-> "str", v |-> <<"W">>]
    /\ processed_proposals[1].v[<<"w","o","r","t","a","n","z","a","h","l">>] = [t |-> "int", v |-> 8]


\* C22: whatever the response text, the salvager returns a list and never raises, and
\* the list is empty when the response has no item that is complete; when the request
\* of generate_proposals fails, generate_proposals returns the empty list.
C22_SalvagerNeverRaises ==
    /\ [](/\ pc # "ParseRaised"
          /\ (pc = "Parsed" /\ CompleteItems = {}) => processed_proposals = <<>>)
    /\ [][(pc = "ProposalsRequest" /\ call.state = "raised")
              => (pc' = "ProposalsDone" /\ processed_proposals' = <<>>)]_vars

\* C23: boundary repair is idempotent: what _clean_text_ending returns for its own
\* result is that result.
C23_RepairIdempotent ==
    pc = "CleanedAgain" => result = full_story

\* C24: for a text that ends in "and the door swung open. She stepped into the Room",
\* boundary repair returns a text that ends in "and the door swung open.".
C24_FragmentRemovedSentenceKept ==
    (pc = "Cleaned" /\ EndsWith(chapter_text, ENDING_FRAGMENT))
        => EndsWith(full_story, SubSeq(ENDING_FRAGMENT, 1, 24))

\* C25: for a text whose last paragraph ends in the opened quote of
\* He said, "I will never  boundary repair returns the text up to the last sentence end
\* of that paragraph before the quote (closing quotes after it included or not), or
\* the text without the paragraph when the paragraph has no sentence end before the quote.
C25_DanglingDialogueRemoved ==
    (pc = "Cleaned" /\ EndsWith(chapter_text, ENDING_DIALOGUE))
        => LET text == chapter_text
               separator == PyRFindAll(text, ParaSep)
               paragraph_start == IF separator = -1 THEN 0 ELSE separator + 2
               quote == Len(text) - 13
               sentence_ends == {k \in paragraph_start..(quote - 1) : text[k + 1] \in {".", "!", "?"}}
           IN  IF sentence_ends = {}
               THEN full_story = Strip(Slice(text, 0, paragraph_start))
               ELSE \E cut \in (SetMax(sentence_ends) + 1)..quote :
                       /\ \A k \in (SetMax(sentence_ends) + 1)..(cut - 1) :
                              text[k + 1] \in {" ", "\"", "'", "RDQ", "RSQ"}
                       /\ full_story = Strip(Slice(text, 0, cut))

\* C26: a run with an unsupported language ends in generate before anything is planned
\* or requested and returns no story; the constructor raises exactly when neither the
\* argument nor the environment gives a credential, nothing follows a constructor
\* that raised, and every run that starts has a credential.
C26_ConfigurationErrorBeforePlanning ==
    /\ [](/\ cfg.sprache \in {Latein, <<"f", "r">>, <<>>}
              => /\ pc \in {"Construct", "ValueError", "ClientError", "Start", "Done"}
                 /\ issued = {} /\ call = NoCall
                 /\ num_chapters = 0 /\ words_per_chapter_list = <<>> /\ plot_outline = None
                 /\ pc = "Done" => result = None
          /\ pc \notin {"Construct", "ValueError"} => ~Falsy(resolved_api_key)
          /\ pc = "ValueError" => issued = {} /\ result = None)
    /\ [][/\ pc = "Construct" => (pc' = "ValueError" <=> Falsy(resolved_api_key'))
          /\ pc \notin {"ValueError", "ClientError"}]_vars

C26_Witness ==
    /\ pc = "Done"
    /\ cfg.sprache = Latein /\ cfg.chapter_mode
    /\ resolved_api_key = ENVIRONMENT_KEY
    /\ result = None
    /\ issued = {}

\* C27: the temporary file of a step is gone when the step has finished, however it
\* ended; no temporary file is left when generate or generate_proposals has returned;
\* and a step only ever opens its own temporary file.
C27_TemporaryArtifactsDeleted ==
    /\ [](/\ pc \in {"Done", "ProposalsDone"} => temp_files.present = {}
          /\ \A r \in temp_files.read : r[1] = r[2])
    /\ [][(/\ pc \in {"OutlineGeneration", "SegmentGenerate", "EpilogueGeneration",
                      "SingleStory", "ProposalsRequest"}
           /\ pc' # pc)
              => temp_files'.present = {}]_vars

\* C28: when generate is run twice with the same request and every request of the
\* second run ends as it did in the first (returned with the same text and saved or
\* not as before, or raised), the two runs return the same document, whatever the
\* error messages and the numbers of attempts of the two runs were.
C28_DocumentIndependentOfDiagnostics ==
    (pc = "Done" /\ first_run.done /\ run_log.outcomes = first_run.outcomes)
        => result = first_run.result

C28_Witness ==
    /\ pc = "Done"
    /\ first_run.done
    /\ run_log.outcomes = first_run.outcomes
    /\ \E k \in 1..Len(run_log.outcomes) :
          /\ run_log.outcomes[k].step = <<"chapter", 1>>
          /\ ~run_log.outcomes[k].returned
          /\ \A j \in (k + 1)..Len(run_log.outcomes) : run_log.outcomes[j].returned
    /\ run_log.diagnostics = [retries |-> MAX_RETRIES, raised |-> ERROR_OVERLOADED]
    /\ first_run.diagnostics = [retries |-> 0, raised |-> ERROR_FATAL]
    /\ result # None
    /\ result = first_run.result



(***************************************************************************)
(* C29: within a chapter iteration the steps come in the order outline     *)
(* segment and prompt, chapter request, repair of the chapter ending,      *)
(* detailed context, running summary, append; the prompt of chapter i + 1  *)
(* holds the detailed context and the running summary as they stand after  *)
(* the updates of chapter i, and the prompt of chapter 1 holds the         *)
(* placeholder of the first chapter and the seeded running summary.        *)
(***************************************************************************)
SegmentStepOrder ==
    {<<"SegmentPrepare", "SegmentGenerate">>, <<"SegmentGenerate", "SegmentSummary">>,
     <<"SegmentSummary", "SegmentRunning">>, <<"SegmentRunning", "SegmentAppend">>,
     <<"SegmentAppend", "SegmentPrepare">>, <<"SegmentAppend", "EpilogueDecision">>}

SegmentSteps == {step[1] : step \in SegmentStepOrder}

C29_SegmentStepsInOrder ==
    [][ /\ (pc \in SegmentSteps /\ pc' # pc) => <<pc, pc'>> \in SegmentStepOrder
        /\ pc = "SegmentPrepare"
              => /\ chapter_context'.kapitel_nummer = i + 1
                 /\ chapter_context'.plot_outline_segment
                        \in {ExtractOutlineSegment(plot_outline, i + 1), outline_segment_placeholder}
                 /\ chapter_context'.zusammenfassung_vorher = context_for_next_chapter[1]
                 /\ chapter_context'.running_plot_summary = running_plot_summary
                 /\ prompts' = Append(prompts, chapter_context')
                 /\ call' = Pending
                 /\ i = 0 => /\ chapter_context'.zusammenfassung_vorher = SUMMARY_FIRST_CHAPTER
                             /\ chapter_context'.running_plot_summary
                                    = RUNNING_SUMMARY_PLACEHOLDER \o RUNNING_SUMMARY_INITIAL
        /\ (pc = "SegmentGenerate" /\ pc' = "SegmentSummary" /\ call.state = "returned"
              /\ seg_status'[Len(seg_status')] = "ok")
              => chapter_text' = CleanTextEnding(FormatChapter(i + 1, call.content, Titel))
        /\ pc # "SegmentGenerate" => chapter_text' \in {chapter_text, None}
        /\ pc \notin {"SegmentSummary", "OutlineGeneration"}
              => context_for_next_chapter' = context_for_next_chapter
        /\ pc \notin {"SegmentRunning", "OutlineGeneration"}
              => running_plot_summary' = running_plot_summary
        /\ pc = "SegmentAppend"
              => /\ generated_chapters' = Append(generated_chapters, chapter_text)
                 /\ i' = i + 1
        /\ pc \notin {"SegmentAppend", "OutlineGeneration"}
              => generated_chapters' = generated_chapters /\ i' = i
      ]_vars

\* the prompt of the second chapter is built after both updates of the first chapter
C29_Witness ==
    /\ pc = "SegmentGenerate" /\ i = 1 /\ Len(prompts) = 2
    /\ seg_status = <<"ok">>
    /\ Len(generated_chapters) = 1
    /\ prompts[1].zusammenfassung_vorher = SUMMARY_FIRST_CHAPTER
    /\ prompts[1].running_plot_summary = RUNNING_SUMMARY_PLACEHOLDER \o RUNNING_SUMMARY_INITIAL
    /\ prompts[2].zusammenfassung_vorher = context_for_next_chapter[1]
    /\ prompts[2].zusammenfassung_vorher # SUMMARY_FIRST_CHAPTER
    /\ prompts[2].running_plot_summary = running_plot_summary
    /\ prompts[2].running_plot_summary # prompts[1].running_plot_summary


(***************************************************************************)
(* C30: the list of chapters only grows, every iteration of the loop       *)
(* appends exactly one entry, the text of its chapter or the placeholder,  *)
(* and after the loop the list holds num_chapters entries, also when an    *)
(* exception ends an iteration whose chapter text was already there.       *)
(***************************************************************************)
C30_OneEntryPerIteration ==
    /\ pc \in {"SegmentPrepare", "SegmentGenerate", "SegmentSummary", "SegmentRunning",
               "SegmentAppend", "EpilogueDecision"}
          => Len(generated_chapters) = i
    /\ pc = "EpilogueDecision" => Len(generated_chapters) = num_chapters
    /\ Len(seg_status) >= Len(generated_chapters)
    /\ \A k \in 1..Len(generated_chapters) :
           (seg_status[k] = "failed") <=> (generated_chapters[k] = ErrorPlaceholder(k))


(***************************************************************************)
(* C31: the document that a run through the chapter loop returns begins    *)
(* with the heading "# " and the title, also when the first chapter failed *)
(* and is the placeholder, or was rescued.                                 *)
(***************************************************************************)
C31_DocumentBeginsWithTitle ==
    (pc = "Done" /\ <<"outline", 0>> \in issued /\ result # None)
        => StartsWith(result, MainTitlePrefix(Titel))


(***************************************************************************)
(* C32: a chapter, an epilogue or a single story is rescued only when its  *)
(* request returned and a later step of the unit failed; when the request  *)
(* raised, after an error that is not retried or after the last retry, the *)
(* unit has failed: the chapter is the placeholder, the single story is    *)
(* None, and the story gets the notice in place of an epilogue.            *)
(***************************************************************************)
C32_RaisedNeverRescued ==
    [][ /\ (pc = "SegmentGenerate" /\ pc' = "SegmentSummary")
              => /\ call.state \in {"returned", "raised"}
                 /\ call.state = "raised"
                        => /\ seg_status'[Len(seg_status')] = "failed"
                           /\ chapter_text' = ErrorPlaceholder(i + 1)
                 /\ (\/ seg_status'[Len(seg_status')] = "rescued"
                     \/ Contains(chapter_text', RESCUED_CHAPTER_NOTICE))
                        => /\ call.state = "returned"
                           /\ Len(Strip(call.content)) > MIN_CHARS_FOR_RESCUE
        /\ (pc = "SingleStory" /\ pc' = "Done")
              => /\ call.state \in {"returned", "raised"}
                 /\ call.state = "raised" => result' = None
                 /\ result' # None => call.state = "returned"
        /\ (pc = "EpilogueGeneration" /\ pc' = "Assembly")
              => /\ call.state \in {"returned", "raised"}
                 /\ call.state = "raised"
                        => full_story' = full_story \o ParaSep \o RESCUED_EPILOG_NOTICE
      ]_vars

\* a rescued chapter is followed by a chapter whose request raised
C32_Witness ==
    /\ pc = "SegmentSummary" /\ i = 1
    /\ seg_status = <<"rescued", "failed">>
    /\ chapter_text = ErrorPlaceholder(2)
    /\ Contains(generated_chapters[1], RESCUED_CHAPTER_NOTICE)
    /\ <<"chapter", 2>> \in issued


(***************************************************************************)
(* C33: the planner's number of chapters is ceil(words / limit) when       *)
(* words <= 1.5 * limit, and max(3, round(words / 2500)) otherwise, at     *)
(* least 1; the number returned is that number, or one more when the       *)
(* recalculation took place.  Read with halves rounded up, the statement   *)
(* fails; it holds with round as Python computes it: a half goes to the    *)
(* even neighbour.                                                         *)
(***************************************************************************)
Distance(a, b) == IF a >= b THEN a - b ELSE b - a

\* the whole numbers nearest to words / 2500
NearestCounts(words) ==
    LET candidates == 0..(words \div TARGET_WORDS_PER_CHAPTER_DIVISOR + 1)
    IN  {n \in candidates :
            \A m \in candidates :
                Distance(words, n * TARGET_WORDS_PER_CHAPTER_DIVISOR)
                    <= Distance(words, m * TARGET_WORDS_PER_CHAPTER_DIVISOR)}

RoundHalfEven(words) ==
    CHOOSE n \in NearestCounts(words) : \A m \in NearestCounts(words) : m = n \/ n % 2 = 0

RoundHalfUp(words) ==
    CHOOSE n \in NearestCounts(words) : \A m \in NearestCounts(words) : m <= n

ClaimedCount(words, limit, rounded) ==
    LET count == IF 2 * words <= 3 * limit
                 THEN CHOOSE n \in 0..words : n * limit >= words /\ (n - 1) * limit < words
                 ELSE IF rounded >= MIN_CHAPTERS_LONG_STORY THEN rounded
                      ELSE MIN_CHAPTERS_LONG_STORY
    IN  IF count >= 1 THEN count ELSE 1

\* the recalculation takes place when the largest share exceeds 1.1 * limit
RebalanceFires(words, limit, count) ==
    \E share \in 0..words :
        /\ share * count >= words /\ (share - 1) * count < words
        /\ 10 * share > 11 * limit

PlannedAs(rounded) ==
    LET count == ClaimedCount(target_word_count, cfg.max_words_per_chapter, rounded)
    IN  /\ num_chapters \in {count, count + 1}
        /\ num_chapters = count + 1
               <=> RebalanceFires(target_word_count, cfg.max_words_per_chapter, count)

C33_CountRoundsHalfUp ==
    (pc = "OutlineGeneration" /\ num_chapters # 0) => PlannedAs(RoundHalfUp(target_word_count))

C33_CountRoundsHalfEven ==
    (pc = "OutlineGeneration" /\ num_chapters # 0) => PlannedAs(RoundHalfEven(target_word_count))

\* 11250 / 2500 = 4.5: four chapters, not five
C33_Witness ==
    /\ pc = "OutlineGeneration"
    /\ target_word_count = 11250 /\ cfg.max_words_per_chapter = 3000
    /\ num_chapters = 4
    /\ RoundHalfEven(target_word_count) = 4 /\ RoundHalfUp(target_word_count) = 5


(***************************************************************************)
(* C34: the scan of _repair_incomplete_json ends on every text: a round of *)
(* its loop either ends the scan or moves the cursor forward, to the index *)
(* after the closing brace it found, so the cursor never takes a position  *)
(* twice and never passes the end of the text.                             *)
(***************************************************************************)
C34_CursorAdvancesOrScanEnds ==
    /\ [][ pc = "RepairScan"
              => \/ pc' = "Repaired" /\ cursor' = cursor /\ proposals' = proposals
                 \/ /\ pc' = "RepairScan"
                    /\ cursor' > cursor
                    /\ cursor' <= Len(raw_content)
                    /\ raw_content[cursor'] = "}"
                    /\ raw_content' = raw_content ]_vars
    /\ <>(pc = "Repaired")

\* the scan has ended after three rounds that each found an object
C34_Witness ==
    /\ pc = "Repaired"
    /\ response_text = SCAN_OPEN_LAST
    /\ cursor = 16 /\ Len(proposals) = 2


(***************************************************************************)
(* C35: a span that is not valid does not end the scan: after a fragment   *)
(* that json.loads refuses, and after an opening brace that is never       *)
(* closed, the complete valid objects that start later are still in the    *)
(* list that _repair_incomplete_json returns.                              *)
(***************************************************************************)
BraceIndices == {k \in 0..(Len(raw_content) - 1) : raw_content[k + 1] = "{"}

\* the object from the brace at index k to the brace that closes it
SpanEnd(k) == BraceScan(raw_content, k)

SpanValue(k) == JsonLoads(Slice(raw_content, k, SpanEnd(k) + 1))

ValidSpanAt(k) == SpanEnd(k) > k /\ SpanValue(k).ok /\ SpanValue(k).value.t = "obj"

\* a valid object that is not part of another valid object
OutermostValidAt(k) ==
    /\ ValidSpanAt(k)
    /\ \A j \in BraceIndices : (j < k /\ ValidSpanAt(j)) => SpanEnd(j) < k

FragmentBefore(k) ==
    \E u \in BraceIndices : SpanEnd(u) > u /\ SpanEnd(u) < k /\ ~SpanValue(u).ok

UnclosedBefore(k) ==
    \E u \in BraceIndices : u < k /\ SpanEnd(u) = -1

Returned(k) == \E n \in 1..Len(proposals) : proposals[n] = SpanValue(k).value

C35_ValidObjectsAfterInvalidSpans ==
    pc = "Repaired"
        => \A k \in BraceIndices :
               (OutermostValidAt(k) /\ (FragmentBefore(k) \/ UnclosedBefore(k))) => Returned(k)


(***************************************************************************)
(* C36: in the scan of _repair_incomplete_json a brace inside a string in  *)
(* double quotes leaves nest_level as it is, and a quote after a backslash *)
(* does not end the string, so that an object whose strings hold braces or *)
(* escaped quotes is taken as one span, from its opening brace to the      *)
(* brace that closes it.  This holds for the strings that begin behind the *)
(* opening brace the scan starts from; the scan may start from a brace     *)
(* that itself lies inside a string of the text, and that brace counts.    *)
(***************************************************************************)
\* where raw_content begins in the text
RawOffset == Len(response_text) - Len(raw_content)

\* the number of backslashes right before index q of the text
BackslashRun(q) == Cardinality({r \in 1..q : \A j \in 1..r : response_text[q - j + 1] = "\\"})

\* the quotes of the text that open or close a string
StringQuotes == {q \in 0..(Len(response_text) - 1) :
                    response_text[q + 1] = "\"" /\ BackslashRun(q) % 2 = 0}

\* the character at index k of raw_content lies inside a string of the text
LiesInString(k) == Cardinality({q \in StringQuotes : q < k + RawOffset}) % 2 = 1

\* the values of the scan that began at obj_start, before it reads index k
ScanBefore(obj_start, k) ==
    ScanRange(raw_content, obj_start, k - 1,
              [nest_level |-> 0, in_string |-> FALSE, escaped |-> FALSE, obj_end |-> -1])

ScannedIndices(obj_start) ==
    obj_start..(IF BraceScan(raw_content, obj_start) = -1 THEN Len(raw_content) - 1
                ELSE BraceScan(raw_content, obj_start))

BracesInStringsNotCounted(obj_start) ==
    \A k \in ScannedIndices(obj_start) :
        (raw_content[k + 1] \in {"{", "}"} /\ LiesInString(k))
            => ScanBefore(obj_start, k + 1).nest_level = ScanBefore(obj_start, k).nest_level

StringsFollowed(obj_start) ==
    \A k \in ScannedIndices(obj_start) : ScanBefore(obj_start, k).in_string = LiesInString(k)

\* the braces outside strings from obj_start to index e: opened minus closed
Depth(obj_start, e) ==
    Cardinality({k \in obj_start..e : raw_content[k + 1] = "{" /\ ~LiesInString(k)})
        - Cardinality({k \in obj_start..e : raw_content[k + 1] = "}" /\ ~LiesInString(k)})

OneSpan(obj_start) ==
    LET obj_end == BraceScan(raw_content, obj_start)
    IN  IF obj_end = -1
        THEN \A e \in obj_start..(Len(raw_content) - 1) : Depth(obj_start, e) > 0
        ELSE /\ raw_content[obj_end + 1] = "}" /\ ~LiesInString(obj_end)
             /\ Depth(obj_start, obj_end) = 0
             /\ \A e \in obj_start..(obj_end - 1) : Depth(obj_start, e) > 0

\* the brace the round at hand starts from, or -1
ScanStartBrace == IF pc = "RepairScan" /\ cursor < Len(raw_content)
                  THEN PyFind(raw_content, <<"{">>, cursor) ELSE -1

FinalParagraph(text_) ==
  Value({ (
    LET paragraphs == Split(text, ParaSep) IN paragraphs[Len(paragraphs)]
  ) : text \in {text_} })

\* the quotation marks of a paragraph, in the order they stand
QuotationMarks(paragraph) ==
    SelectSeq(paragraph, LAMBDA c : c \in {"\"", "'", "LDQ", "RDQ", "LSQ", "RSQ"})

\* every mark belongs to a matched pair: a straight mark closes the straight mark of
\* its kind opened last and opens one otherwise, a curly mark opens, its partner closes
\* it; open is the stack of the marks opened and not yet closed
RECURSIVE MarksMatched(_, _)
MarksMatched(marks, open) ==
    IF marks = <<>> THEN open = <<>>
    ELSE LET mark == Head(marks)
             top == IF open = <<>> THEN "none" ELSE open[Len(open)]
             Pop == SubSeq(open, 1, Len(open) - 1)
         IN  CASE mark \in {"\"", "'"} ->
                      IF top = mark THEN MarksMatched(Tail(marks), Pop)
                      ELSE MarksMatched(Tail(marks), Append(open, mark))
               [] mark \in {"LDQ", "LSQ"} -> MarksMatched(Tail(marks), Append(open, mark))
               [] mark = "RDQ" -> top = "LDQ" /\ MarksMatched(Tail(marks), Pop)
               [] mark = "RSQ" -> top = "LSQ" /\ MarksMatched(Tail(marks), Pop)

NoUnclosedQuote(text) == MarksMatched(QuotationMarks(FinalParagraph(text)), <<>>)

\* a text the boundary repair has nothing to do for
WellFormed(text_) ==
  Value({ (
    /\ text # <<>>
    /\ text[Len(text)] \in {".", "!", "?"}
    /\ NoUnclosedQuote(text)
    /\ WordCount(FinalParagraph(text)) >= MIN_WORDS_FOR_VALID_ENDING
    /\ StripSet(PyLower(LastWord(FinalParagraph(text))),
                {"\"", ".", "!", "?", ",", "RSQ", "RDQ", ")"}) \notin CONJUNCTIONS_AT_END
  ) : text \in {text_} })

\* C37: a text that ends with '.', '!' or '?', whose last paragraph has every quotation
\* mark in a matched pair, at least 4 words and no closing conjunction as its last word,
\* is returned by _clean_text_ending as it is (without its trailing whitespace).
C37_WellFormedTextUnchanged ==
    (pc = "Cleaned" /\ WellFormed(chapter_text)) => full_story = RStrip(chapter_text)

\* the text as pass 3 of _clean_text_ending receives it; None when line 739 has
\* returned the text before any pass
BeforePass3(text_) ==
  Value({ (
    IF text = <<>> \/ Len(Strip(text)) < MIN_CHARS_FOR_RESCUE \div 3
    THEN None
    ELSE CleanPass2(CleanPass1(RStrip(text)))
  ) : text \in {text_} })

\* C38: when every quotation mark of the last paragraph belongs to a matched pair,
\* straight or curly, the quotation pass of _clean_text_ending returns the text it
\* was given: the result of the repair is what the last pass makes of that text.
C38_MatchedQuotesLeftAlone ==
    pc = "Cleaned"
        => \A before \in {BeforePass3(chapter_text)} :
               (before # None /\ NoUnclosedQuote(before))
                   => /\ CleanPass3(before) = before
                      /\ full_story = CleanPass4(before)

\* the text as pass 4 of _clean_text_ending receives it; None when line 739 has
\* returned the text before any pass
BeforePass4(text_) ==
  Value({ (
    IF BeforePass3(text) = None THEN None ELSE CleanPass3(BeforePass3(text))
  ) : text \in {text_} })

\* the text without its last paragraph
WithoutFinalParagraph(text_) ==
  Value({ (
    LET paragraphs == Split(text, ParaSep)
    IN  Strip(Join(SubSeq(paragraphs, 1, Len(paragraphs) - 1), ParaSep))
  ) : text \in {text_} })

\* the last paragraph has fewer than 4 words or a closing conjunction as its last word
ShortOrConjunction(text) ==
    \/ WordCount(FinalParagraph(text)) < MIN_WORDS_FOR_VALID_ENDING
    \/ /\ WordCount(FinalParagraph(text)) > 0
       /\ StripSet(PyLower(LastWord(FinalParagraph(text))),
                   {"\"", ".", "!", "?", ",", "RSQ", "RDQ", ")"}) \in CONJUNCTIONS_AT_END

\* the paragraph before the last one ends with '.', '!', '?' or a quotation mark
PrecedingEndsOnPunctuation(text_) ==
  Value({ (
    LET paragraphs == Split(text, ParaSep)
        preceding == Strip(paragraphs[Len(paragraphs) - 1])
    IN  /\ preceding # <<>>
        /\ preceding[Len(preceding)] \in {".", "!", "?", "\"", "'", "RDQ", "RSQ"}
  ) : text \in {text_} })

SeveralParagraphs(text) == Len(Split(text, ParaSep)) > 1

\* C39 as stated: the trailing-paragraph pass drops the last paragraph exactly when it
\* is short or ends in a conjunction and the paragraph before it ends on terminal
\* punctuation; in every other case the text is returned as the pass received it.
C39_DropsOnlyAfterCompleteParagraph ==
    pc = "Cleaned"
        => \A before \in {BeforePass4(chapter_text)} :
               before # None
                   => full_story
                          = IF /\ SeveralParagraphs(before)
                               /\ ShortOrConjunction(before)
                               /\ PrecedingEndsOnPunctuation(before)
                            THEN WithoutFinalParagraph(before)
                            ELSE before

\* C39 amended: the pass also drops a last paragraph of fewer than 2 words when the
\* paragraph before it does not end on terminal punctuation.
C39_DropsShortOrVeryShortParagraph ==
    pc = "Cleaned"
        => \A before \in {BeforePass4(chapter_text)} :
               before # None
                   => full_story
                          = IF /\ SeveralParagraphs(before)
                               /\ \/ ShortOrConjunction(before)
                                        /\ PrecedingEndsOnPunctuation(before)
                                  \/ WordCount(FinalParagraph(before)) < 2
                                        /\ ~PrecedingEndsOnPunctuation(before)
                            THEN WithoutFinalParagraph(before)
                            ELSE before

\* C39 witness: the one-word paragraph after a paragraph without punctuation is dropped
C39_Witness ==
    /\ pc = "Cleaned"
    /\ chapter_text = TRAILING_ONE_WORD
    /\ BeforePass4(chapter_text) = chapter_text
    /\ ~PrecedingEndsOnPunctuation(chapter_text)
    /\ full_story = SubSeq(TRAILING_ONE_WORD, 1, 37)

\* C40: whichever of the two retry executors has handled one error, it has retried
\* exactly when the story generator's classification of the message calls it
\* retryable and exactly when the idea generator's does: the two executors decide
\* alike for every message.
C40_ExecutorsDecideAlike ==
    (pc \in ExecutorPositions /\ Len(call.errors) = 1)
        => /\ (call.state # "raised") <=> IsRetryable(call.errors[1])
           /\ (call.state # "raised") <=> IdeaIsRetryable(call.errors[1])

====
